---------------------------- MODULE Spec2Model ----------------------------
(***************************************************************************)
(* A model of the neuro-feedback signal pipeline: the flow-state detector  *)
(* (lib/flow-state), the coherence scorer, the Muse handler                *)
(* (lib/muse-handler) with its FFT band update and OSC events, and the     *)
(* useMuse hook that drives them once per animation frame.                 *)
(*                                                                         *)
(* Numbers.  Band values, qualities, motion and coherence are fixed-point  *)
(* integers in thousandths (1000 = 1.0).  A variance is kept exactly, as   *)
(* the fraction num/den of squared thousandths.  Time is counted in units  *)
(* of TimeUnitMs milliseconds, so that sustainedMs = 5000 is 5 units.      *)
(***************************************************************************)
EXTENDS Integers, Sequences, FiniteSets, TLC

(* null, for a field that holds a timestamp or null. *)
Null == 0 - 1

(* One unit of band value: 1.0 in thousandths. *)
Scale == 10 * 100
(* One unit of variance: 1.0 in squared thousandths. *)
Scale2 == Scale * Scale
(* Milliseconds per unit of model time. *)
TimeUnitMs == 10 * 100

(* ------------------------------ bounds -------------------------------- *)
(* The clock stops at MaxTime units. *)
MaxTime == 4
(* Date.now() advances by 0..MaxStep units between two calls. *)
MaxStep == 2
(* Length of the detector's alpha and beta windows (30 in the code,       *)
(* part_005 line 29), scaled down to keep the windows enumerable.         *)
historyLength == 2

\* MuseHandler.historyLength: entries kept per band (256 in the code)
museHistoryLength == 2
\* data events (OSC messages, EEG readings) delivered in one behaviour
MaxEvents == 3
\* OSC sockets that have not closed yet, at any one time
MaxSockets == 2
\* the latest time of the clock when the whole pipeline runs, and the    
\* oldest age a timestamp is kept at when the clock runs on
MaxClock == 4

(* ------------------------------ helpers ------------------------------- *)
RECURSIVE SumSeq(_)
SumSeq(s) == IF s = << >> THEN 0 ELSE Head(s) + SumSeq(Tail(s))

RECURSIVE SumSq(_)
SumSq(s) == IF s = << >> THEN 0 ELSE Head(s) * Head(s) + SumSq(Tail(s))

(* F of the value of x, x evaluated once *)
With(x, F(_)) == CHOOSE r \in { F(v) : v \in {x} } : TRUE

Min(a, b) == IF a < b THEN a ELSE b
Max(a, b) == IF a > b THEN a ELSE b

(* ---------------------- FlowStateDetector: config --------------------- *)
DEFAULT_CONFIG ==
  [ sustainedMs             |-> 5000 \div TimeUnitMs,
    varianceThreshold       |-> (15 * Scale2) \div 100,
    noiseThreshold          |-> (3 * Scale) \div 10,
    betaAlphaRatioThreshold |-> Scale,
    minSignalPower          |-> (5 * Scale) \div 100,
    minVariance             |-> Scale2 \div 1000 ]

(* { ...a, ...b }: the fields of a and of b, those of b overriding. *)
Merge(a, b) ==
  [k \in DOMAIN a \cup DOMAIN b |-> IF k \in DOMAIN b THEN b[k] ELSE a[k]]

(* ---------------------------- state ----------------------------------- *)
VARIABLES
  now,                \* Date.now(), in time units
  op,                 \* the operation that produced this state
  \* FlowStateDetector (one instance, owned by the useMuse hook)
  config,             \* config
  conditionMetSince,  \* conditionMetSince (Null or a time)
  recentAlphaValues,  \* recentAlphaValues
  recentBetaValues,   \* recentBetaValues
  isActive,           \* _isActive
  \* useMuse
  fs,                 \* flowState: the FlowState of the last update
  coherence,          \* coherence: calculateCoherence of the last update
  \* observations of the last update, for the claims
  obs,                \* its inputs, gate and notifications
  runStart,           \* time of the first tick of the current unbroken run
                      \* of conditionsMet ticks (Null outside a run)
  prevRun,            \* elapsed time the last broken run had reached
  \* MuseHandler
  _connected,         \* _connected
  _connectionMode,    \* _connectionMode ("none" for null)
  _lastUpdate,        \* _lastUpdate
  osc,                \* osc: 0 for null, else the id of the socket
  sockets,            \* the state of every OSC socket created so far
  reconnectInterval,  \* Null, or the time the pending reconnect timer is due
  museClient,         \* whether museClient (and its subscriptions) is set
  eegBuffers,         \* eegBuffers: four sample buffers
  _bands,             \* _bands: raw band values
  _bandsSmooth,       \* _bandsSmooth
  _history,           \* _history: rolling history per band
  _electrodeQuality,  \* _electrodeQuality: four horseshoe codes
  _acc,               \* _accX, _accY, _accZ
  ev,                 \* what the last data handler call did, for the claims
  delivered,          \* number of data events delivered so far
  wasDisconnected,    \* whether a connection has been lost or closed so far
  userDisconnected,   \* whether the user's last connection call was disconnect()
  timers,             \* number of reconnect timeouts the runtime holds pending
  \* the pure functions
  call,               \* the last call of a pure function: its name, its
                      \* arguments and what it returned
  scratch,            \* the real and imag arrays of an FFTProcessor that is
                      \* called on its own
  \* useSession
  currentUser,        \* currentUser: Null or the id of a user
  screen,             \* screen
  isSessionActive,    \* isSessionActive
  sessionStartTime,   \* sessionStartTime (Null or a time)
  sessionDuration,    \* sessionDuration
  flowStateTime,      \* flowStateTime
  longestStreak,      \* longestStreak
  currentStreak,      \* currentStreak
  coherenceHistory,   \* coherenceHistory
  flowStateStartRef,  \* flowStateStartRef.current (Null or a time)
  lastCoherenceTimeRef, \* lastCoherenceTimeRef.current
  lastSession,        \* lastSession: NoSession or the session endSession saved
  reports,            \* the updateFlowState calls of the current session,
                      \* each with its time, for the claims
  reported,           \* number of updateFlowState calls of all sessions
  \* StorageManager (the contents of localStorage)
  users,              \* the stored users
  sessions,           \* the stored sessions
  uuids,              \* number of ids uuidv4() has generated
  imported,           \* what the last importData returned or threw
  \* AudioEngine (the singleton audioEngine), useAudio, App
  audioEngine,        \* the fields of the engine, the oscillators it has
                      \* created and the timeouts it has pending
  isRewardPlaying,    \* useAudio: isRewardPlaying
  isInitialized,      \* useAudio: isInitialized
  entrainmentEnabled, \* useAudio: entrainmentEnabled
  entrainmentType,    \* useAudio: entrainmentType
  effectPending       \* App: whether a dependency of the reward effect has
                      \* changed since the effect last ran

detVars  == << config, conditionMetSince, recentAlphaValues,
               recentBetaValues, isActive >>
hookVars == << fs, coherence, obs, runStart, prevRun >>
connVars == << _connected, _connectionMode, osc, sockets,
               reconnectInterval, museClient >>
dataVars == << eegBuffers, _bands, _bandsSmooth, _history,
               _electrodeQuality, _acc, ev >>
connGhost == << userDisconnected, timers >>
museVars == << connVars, dataVars, _lastUpdate, delivered, wasDisconnected,
              connGhost >>

sessVars == << currentUser, screen, isSessionActive, sessionStartTime,
               sessionDuration, flowStateTime, longestStreak, currentStreak,
               coherenceHistory, flowStateStartRef, lastCoherenceTimeRef,
               lastSession, reports, reported >>
storeVars == << users, sessions, uuids, imported >>
audioVars == << audioEngine, isRewardPlaying, isInitialized,
                entrainmentEnabled, entrainmentType, effectPending >>
appVars  == << sessVars, storeVars, audioVars >>
fnVars   == << call, scratch, appVars >>
\* everything outside the session, storage and audio code
coreVars == << detVars, hookVars, museVars, call, scratch >>

vars == << now, op, detVars, hookVars, museVars, fnVars >>

(* ------------------- FlowStateDetector.update: metrics ---------------- *)
(* The while loop of update: drop the oldest entry of both windows while  *)
(* the alpha window is longer than historyLength.                         *)
RECURSIVE TrimWindows(_, _)
TrimWindows(as, bs) ==
  IF Len(as) > historyLength
    THEN TrimWindows(Tail(as), IF bs = << >> THEN bs ELSE Tail(bs))
    ELSE [alpha |-> as, beta |-> bs]

(* Mutant of calculateVariance: the sample variance (n - 1). *)
calculateVariance_Sample(values) ==
  LET n == Len(values) IN
  IF n < 2 THEN [num |-> 0, den |-> 1]
  ELSE [num |-> n * SumSq(values) - SumSeq(values) * SumSeq(values),
        den |-> n * (n - 1)]

(* calculateVariance: population variance, as the exact fraction          *)
(* (n * sum(v^2) - sum(v)^2) / n^2 of squared thousandths; 0 for fewer    *)
(* than two values.                                                       *)
calculateVariance(values) ==
  LET n == Len(values) IN
  IF n < 2 THEN [num |-> 0, den |-> 1]
  ELSE [num |-> n * SumSq(values) - SumSeq(values) * SumSeq(values),
        den |-> n * n]

(* bands.alpha + bands.beta + bands.gamma + bands.theta + bands.delta *)
TotalPower(bands) ==
  bands.alpha + bands.beta + bands.gamma + bands.theta + bands.delta

(* Mutant of BetaAlphaRatio: >= in place of >. *)
BetaAlphaRatio_Inclusive(bands) ==
  IF 100 * bands.alpha >= Scale
    THEN [num |-> bands.beta, den |-> bands.alpha]
    ELSE [num |-> 10, den |-> 1]

(* bands.alpha > 0.01 ? bands.beta / bands.alpha : 10, as a fraction *)
BetaAlphaRatio(bands) ==
  IF 100 * bands.alpha > Scale
    THEN [num |-> bands.beta, den |-> bands.alpha]
    ELSE [num |-> 10, den |-> 1]

(* motionLevel + bands.gamma * 0.5, as a fraction of thousandths *)
NoiseLevel(bands, motionLevel) ==
  [num |-> 2 * motionLevel + bands.gamma, den |-> 2]

(* Mutant of SignalValid: the alpha check is left out. *)
SignalValid_NoAlphaCheck(cfg, bands, variance, electrodeContactQuality) ==
  /\ TotalPower(bands) >= cfg.minSignalPower
  /\ variance.num >= cfg.minVariance * variance.den
  /\ 2 * electrodeContactQuality >= Scale

(* hasMinPower && hasMinVariance && hasGoodContact && hasAlpha *)
SignalValid(cfg, bands, variance, electrodeContactQuality) ==
  LET hasMinPower    == TotalPower(bands) >= cfg.minSignalPower
      hasMinVariance == variance.num >= cfg.minVariance * variance.den
      hasGoodContact == 2 * electrodeContactQuality >= Scale
      hasAlpha       == 100 * bands.alpha >= 2 * Scale
  IN hasMinPower /\ hasMinVariance /\ hasGoodContact /\ hasAlpha

(* signalValid && ratio < ratioThreshold && variance < varianceThreshold  *)
(* && noiseLevel < noiseThreshold                                         *)
ConditionsMet(cfg, signalValid, ratio, variance, noise) ==
  /\ signalValid
  /\ ratio.num * Scale < cfg.betaAlphaRatioThreshold * ratio.den
  /\ variance.num < cfg.varianceThreshold * variance.den
  /\ noise.num < cfg.noiseThreshold * noise.den

(* ----------------- FlowStateDetector.update: state machine ------------ *)
(* Mutant of NextConditionMetSince: a failing tick keeps the timestamp. *)
NextConditionMetSince_NoClear(conditionsMet, since, t) ==
  IF since = Null THEN (IF conditionsMet THEN t ELSE Null) ELSE since

(* Mutant of NextConditionMetSince: every tick that meets the conditions  *)
(* restarts the timestamp.                                                *)
NextConditionMetSince_Restart(conditionsMet, since, t) ==
  IF conditionsMet THEN t ELSE Null

(* if (conditionsMet) { if (since === null) since = now } else since = null *)
NextConditionMetSince(conditionsMet, since, t) ==
  IF conditionsMet
    THEN (IF since = Null THEN t ELSE since)
    ELSE Null

(* Mutant of ExitFires: the notification does not look at _isActive. *)
ExitFires_Always(conditionsMet, active) == ~conditionsMet

(* if (!conditionsMet && this._isActive) { _isActive = false; onExit() } *)
ExitFires(conditionsMet, active) == ~conditionsMet /\ active

(* this.conditionMetSince ? now - this.conditionMetSince : 0  (a start    *)
(* timestamp of 0 is falsy)                                               *)
SustainedMs(since, t) ==
  IF since # Null /\ since # 0 THEN t - since ELSE 0

(* Mutant of EnterFires: > in place of >=. *)
EnterFires_Strict(cfg, sustained, active) ==
  sustained > cfg.sustainedMs /\ ~active

(* Mutant of EnterFires: the !_isActive test is left out. *)
EnterFires_Repeats(cfg, sustained, active) ==
  sustained >= cfg.sustainedMs

(* if (sustainedMs >= this.config.sustainedMs && !this._isActive) *)
EnterFires(cfg, sustained, active) ==
  sustained >= cfg.sustainedMs /\ ~active

(* The second half of update, lines 90-117: the state machine, given the  *)
(* windows and the metrics of this tick.                                  *)
UpdateMachine(d, t, win, ratio, variance, noise, valid, met) ==
  LET exited    == ExitFires(met, d.isActive)
      active1   == d.isActive /\ met
      since     == NextConditionMetSince(met, d.conditionMetSince, t)
      sustained == SustainedMs(since, t)
      entered   == EnterFires(d.config, sustained, active1)
      active2   == entered \/ active1
  IN [ conditionMetSince |-> since,
       recentAlphaValues |-> win.alpha,
       recentBetaValues  |-> win.beta,
       isActive          |-> active2,
       fs  |-> [ isActive       |-> active2,
                 sustainedMs    |-> sustained,
                 betaAlphaRatio |-> ratio,
                 signalVariance |-> variance,
                 noiseLevel     |-> noise ],
       signalValid   |-> valid,
       conditionsMet |-> met,
       entered       |-> entered,
       exited        |-> exited ]

(* Lines 57-88 of update: the metrics, the validity gate and conditionsMet. *)
UpdateGate(d, bands, electrodeContactQuality, t, win, ratio, variance, noise) ==
  With(SignalValid(d.config, bands, variance, electrodeContactQuality),
       LAMBDA valid :
         With(ConditionsMet(d.config, valid, ratio, variance, noise),
              LAMBDA met :
                UpdateMachine(d, t, win, ratio, variance, noise, valid, met)))

UpdateMetrics(d, bands, motionLevel, electrodeContactQuality, t, win) ==
  With(calculateVariance(win.alpha \o win.beta),
       LAMBDA variance :
         UpdateGate(d, bands, electrodeContactQuality, t, win,
                    BetaAlphaRatio(bands), variance,
                    NoiseLevel(bands, motionLevel)))

(* update(bands, motionLevel, electrodeContactQuality) at time t on the   *)
(* detector d: the detector after the call, the FlowState returned and    *)
(* the notifications fired.                                               *)
DetectorUpdate(d, bands, motionLevel, electrodeContactQuality, t) ==
  With(TrimWindows(Append(d.recentAlphaValues, bands.alpha),
                   Append(d.recentBetaValues, bands.beta)),
       LAMBDA win :
         UpdateMetrics(d, bands, motionLevel, electrodeContactQuality, t, win))

Detector ==
  [ config            |-> config,
    conditionMetSince |-> conditionMetSince,
    recentAlphaValues |-> recentAlphaValues,
    recentBetaValues  |-> recentBetaValues,
    isActive          |-> isActive ]

(* INITIAL_FLOW_STATE of the hook; also what stands for "no update yet". *)
INITIAL_FLOW_STATE ==
  [ isActive       |-> FALSE,
    sustainedMs    |-> 0,
    betaAlphaRatio |-> [num |-> 1, den |-> 1],
    signalVariance |-> [num |-> 0, den |-> 1],
    noiseLevel     |-> [num |-> 0, den |-> 1] ]

ZeroBands == [delta |-> 0, theta |-> 0, alpha |-> 0, beta |-> 0, gamma |-> 0]

NoObs ==
  [ bands |-> ZeroBands, motion |-> 0, quality |-> 0,
    signalValid |-> FALSE, conditionsMet |-> FALSE,
    entered |-> FALSE, exited |-> FALSE, wasActive |-> FALSE,
    wasSince |-> Null, enteredLast |-> FALSE ]

(* ------------------------- detector inputs ---------------------------- *)
Bands(d, t, a, b, g) ==
  [delta |-> d, theta |-> t, alpha |-> a, beta |-> b, gamma |-> g]

In(b, m, q) == [bands |-> b, motion |-> m, quality |-> q]

(* What one tick feeds to update: smoothed bands (thousandths), the       *)
(* normalised motion and the electrode quality scalar.  Two calm signals  *)
(* with good contact (the second with contact exactly at the 0.5 gate),   *)
(* then one input for each way the conditions can fail: contact below     *)
(* the gate, motion, beta above alpha, alpha between 0.01 and 0.02,       *)
(* silence, gamma noise, a flat line (alpha and beta nearly equal, so     *)
(* the pooled variance is below 0.001) and a swing to alpha = 1.0 (the    *)
(* pooled variance reaches 0.15).                                         *)
DetectorInputs ==
  { In(Bands(100, 200, 400, 100,  50),   0, 1000),
    In(Bands(100, 200, 300, 200,  50),   0,  500),
    In(Bands(100, 200, 400, 100,  50),   0,  375),
    In(Bands(100, 200, 400, 100,  50), 500, 1000),
    In(Bands(100, 100, 100, 400,  50),   0, 1000),
    In(Bands(100, 100,  15,   5,   0),   0, 1000),
    In(Bands(  0,   0,   0,   0,   0),   0, 1000),
    In(Bands( 50,  50, 200,  50, 700),   0, 1000),
    In(Bands(100, 200, 220, 200,   0),   0, 1000),
    In(Bands(  0,   0, 1000,  0,   0),   0, 1000) }

(* Sustain durations a detector is constructed with (all positive). *)
SustainChoices == {1, 3}

(* --------------------------- calculateCoherence ----------------------- *)
RECURSIVE SqrtSearch(_, _, _)
SqrtSearch(n, lo, hi) ==
  IF lo >= hi THEN lo
  ELSE CHOOSE r \in { (IF mid * mid <= n THEN SqrtSearch(n, mid, hi)
                                          ELSE SqrtSearch(n, lo, mid - 1)) :
                      mid \in {(lo + hi + 1) \div 2} } : TRUE

(* Math.sqrt, rounded down, for 0 <= n < 2^31 *)
ISqrt(n) == SqrtSearch(n, 0, Min(n, 46340))

(* Math.min(1, alphaRelative * 3), alphaRelative = alpha / totalPower *)
AlphaScore(bands) ==
  Min(Scale, (3 * bands.alpha * Scale) \div TotalPower(bands))

(* Mutant of RatioScore: Math.max(0, ...) is left out. *)
RatioScore_NoFloor(bands) ==
  LET ratio == IF 100 * bands.alpha > Scale
                 THEN (bands.beta * Scale) \div bands.alpha
                 ELSE 2 * Scale
  IN Min(Scale, (3 * Scale) \div 2 - ratio)

(* Math.max(0, Math.min(1, 1.5 - (alpha > 0.01 ? beta / alpha : 2))) *)
RatioScore(bands) ==
  LET ratio == IF 100 * bands.alpha > Scale
                 THEN (bands.beta * Scale) \div bands.alpha
                 ELSE 2 * Scale
  IN Max(0, Min(Scale, (3 * Scale) \div 2 - ratio))

(* Math.min(1, thetaRelative * 2.5), thetaRelative = theta / totalPower *)
ThetaScore(bands) ==
  Min(Scale, (5 * bands.theta * Scale) \div (2 * TotalPower(bands)))

(* Math.max(0, 1 - Math.sqrt(variance) * 3) *)
StabilityScore(variance) ==
  Max(0, Scale - 3 * ISqrt(variance.num \div variance.den))

(* The weighted sum, clamped to [0, 1]. *)
WeightedCoherence(bands, variance) ==
  LET sum == (35 * AlphaScore(bands) + 25 * RatioScore(bands)
              + 20 * ThetaScore(bands) + 20 * StabilityScore(variance))
             \div 100
  IN Max(0, Min(Scale, sum))

(* Mutant of calculateCoherence: the contact guard comes first. *)
calculateCoherence_ContactFirst(bands, variance, electrodeQuality) ==
  IF 2 * electrodeQuality < Scale THEN (15 * Scale) \div 100
  ELSE IF 100 * TotalPower(bands) < 5 * Scale THEN Scale \div 10
  ELSE IF 100 * bands.alpha < Scale THEN Scale \div 5
  ELSE WeightedCoherence(bands, variance)

(* calculateCoherence(bands, variance, electrodeQuality), in thousandths *)
calculateCoherence(bands, variance, electrodeQuality) ==
  IF 100 * TotalPower(bands) < 5 * Scale THEN Scale \div 10
  ELSE IF 2 * electrodeQuality < Scale THEN (15 * Scale) \div 100
  ELSE IF 100 * bands.alpha < Scale THEN Scale \div 5
  ELSE WeightedCoherence(bands, variance)

(* Mutant of getCoherenceZone: the lower bounds are exclusive. *)
getCoherenceZone_Exclusive(c) ==
  IF 10 * c > 7 * Scale THEN "flow"
  ELSE IF 10 * c > 4 * Scale THEN "stabilizing"
  ELSE "noise"

(* getCoherenceZone(coherence) *)
getCoherenceZone(c) ==
  IF 10 * c >= 7 * Scale THEN "flow"
  ELSE IF 10 * c >= 4 * Scale THEN "stabilizing"
  ELSE "noise"

(* ------------------------------ FFTProcessor -------------------------- *)
(* The transform size: 256 in the code.  The model transforms windows of  *)
(* 4 samples, for which the twiddle factors and the Hann window are exact *)
(* (cos and sin of multiples of 90 degrees; window 0, 3/4, 3/4, 0).       *)
FFT_SIZE == 4
SAMPLE_RATE == 256

(* cosTable[i] = cos(2 pi i / size), sinTable[i] = sin(2 pi i / size),    *)
(* i < size / 2, for size = FFT_SIZE (sequences are indexed from 1).      *)
cosTable == << 1, 0 >>
sinTable == << 0, 1 >>

(* window[i] = 0.5 * (1 - cos(2 pi i / (size - 1))), in quarters *)
windowQuarters == << 0, 3, 3, 0 >>

(* highPassFilter(samples, 1.0): alpha = rc / (rc + dt) = 0.976 for a     *)
(* cutoff of 1 Hz at 256 Hz; filtered[0] = 0,                             *)
(* filtered[i] = alpha * (filtered[i-1] + samples[i] - samples[i-1]).     *)
(* The loop up to iteration last: filtered holds the entries of the       *)
(* iterations before i = Len(filtered) + 1 (1-based).                     *)
RECURSIVE HighPassFrom(_, _, _)
HighPassFrom(samples, filtered, last) ==
  IF Len(filtered) >= last THEN filtered
  ELSE HighPassFrom(samples,
         Append(filtered,
                (976 * (filtered[Len(filtered)]
                          + samples[Len(filtered) + 1] - samples[Len(filtered)]))
                  \div 1000),
         last)

(* The whole loop, sixteen iterations at a time (which bounds the depth   *)
(* of the evaluation and leaves the result as it is).                     *)
RECURSIVE HighPassBlocks(_, _)
HighPassBlocks(samples, filtered) ==
  IF Len(filtered) >= Len(samples) THEN filtered
  ELSE HighPassBlocks(samples,
         HighPassFrom(samples, filtered,
                      Min(Len(filtered) + 16, Len(samples))))

highPassFilter(samples) ==
  IF samples = << >> THEN << >> ELSE HighPassBlocks(samples, << 0 >>)

(* The same tables for size = 256, the size of the code, in units of     *)
(* 1/4096, rounded to the nearest unit.                                   *)
cosTable256 ==
  << 4096, 4095, 4091, 4085, 4076, 4065, 4052, 4036, 4017, 3996, 3973,
     3948, 3920, 3889, 3857, 3822, 3784, 3745, 3703, 3659, 3612, 3564,
     3513, 3461, 3406, 3349, 3290, 3229, 3166, 3102, 3035, 2967, 2896,
     2824, 2751, 2675, 2598, 2520, 2440, 2359, 2276, 2191, 2106, 2019,
     1931, 1842, 1751, 1660, 1567, 1474, 1380, 1285, 1189, 1092, 995, 897,
     799, 700, 601, 501, 401, 301, 201, 101, 0, 0 - 101, 0 - 201, 0 - 301,
     0 - 401, 0 - 501, 0 - 601, 0 - 700, 0 - 799, 0 - 897, 0 - 995,
     0 - 1092, 0 - 1189, 0 - 1285, 0 - 1380, 0 - 1474, 0 - 1567, 0 - 1660,
     0 - 1751, 0 - 1842, 0 - 1931, 0 - 2019, 0 - 2106, 0 - 2191, 0 - 2276,
     0 - 2359, 0 - 2440, 0 - 2520, 0 - 2598, 0 - 2675, 0 - 2751, 0 - 2824,
     0 - 2896, 0 - 2967, 0 - 3035, 0 - 3102, 0 - 3166, 0 - 3229, 0 - 3290,
     0 - 3349, 0 - 3406, 0 - 3461, 0 - 3513, 0 - 3564, 0 - 3612, 0 - 3659,
     0 - 3703, 0 - 3745, 0 - 3784, 0 - 3822, 0 - 3857, 0 - 3889, 0 - 3920,
     0 - 3948, 0 - 3973, 0 - 3996, 0 - 4017, 0 - 4036, 0 - 4052, 0 - 4065,
     0 - 4076, 0 - 4085, 0 - 4091, 0 - 4095 >>

sinTable256 ==
  << 0, 101, 201, 301, 401, 501, 601, 700, 799, 897, 995, 1092, 1189, 1285,
     1380, 1474, 1567, 1660, 1751, 1842, 1931, 2019, 2106, 2191, 2276,
     2359, 2440, 2520, 2598, 2675, 2751, 2824, 2896, 2967, 3035, 3102,
     3166, 3229, 3290, 3349, 3406, 3461, 3513, 3564, 3612, 3659, 3703,
     3745, 3784, 3822, 3857, 3889, 3920, 3948, 3973, 3996, 4017, 4036,
     4052, 4065, 4076, 4085, 4091, 4095, 4096, 4095, 4091, 4085, 4076,
     4065, 4052, 4036, 4017, 3996, 3973, 3948, 3920, 3889, 3857, 3822,
     3784, 3745, 3703, 3659, 3612, 3564, 3513, 3461, 3406, 3349, 3290,
     3229, 3166, 3102, 3035, 2967, 2896, 2824, 2751, 2675, 2598, 2520,
     2440, 2359, 2276, 2191, 2106, 2019, 1931, 1842, 1751, 1660, 1567,
     1474, 1380, 1285, 1189, 1092, 995, 897, 799, 700, 601, 501, 401, 301,
     201, 101 >>

window256 ==
  << 0, 1, 2, 6, 10, 16, 22, 30, 40, 50, 62, 75, 89, 104, 121, 138, 157,
     177, 198, 220, 244, 268, 294, 320, 348, 376, 406, 437, 468, 501, 535,
     569, 604, 641, 678, 716, 754, 794, 834, 875, 917, 959, 1002, 1046,
     1090, 1135, 1181, 1227, 1273, 1320, 1367, 1415, 1463, 1512, 1561,
     1610, 1659, 1709, 1759, 1809, 1859, 1909, 1960, 2010, 2061, 2111,
     2161, 2212, 2262, 2312, 2362, 2412, 2461, 2511, 2560, 2608, 2657,
     2705, 2752, 2800, 2846, 2893, 2938, 2983, 3028, 3072, 3115, 3158,
     3200, 3242, 3282, 3322, 3361, 3400, 3437, 3474, 3509, 3544, 3578,
     3611, 3644, 3675, 3705, 3734, 3762, 3789, 3815, 3840, 3864, 3887,
     3909, 3929, 3948, 3967, 3984, 4000, 4014, 4028, 4040, 4051, 4061,
     4070, 4077, 4083, 4088, 4092, 4095, 4096, 4096, 4095, 4092, 4088,
     4083, 4077, 4070, 4061, 4051, 4040, 4028, 4014, 4000, 3984, 3967,
     3948, 3929, 3909, 3887, 3864, 3840, 3815, 3789, 3762, 3734, 3705,
     3675, 3644, 3611, 3578, 3544, 3509, 3474, 3437, 3400, 3361, 3322,
     3282, 3242, 3200, 3158, 3115, 3072, 3028, 2983, 2938, 2893, 2846,
     2800, 2752, 2705, 2657, 2608, 2560, 2511, 2461, 2412, 2362, 2312,
     2262, 2212, 2161, 2111, 2061, 2010, 1960, 1909, 1859, 1809, 1759,
     1709, 1659, 1610, 1561, 1512, 1463, 1415, 1367, 1320, 1273, 1227,
     1181, 1135, 1090, 1046, 1002, 959, 917, 875, 834, 794, 754, 716, 678,
     641, 604, 569, 535, 501, 468, 437, 406, 376, 348, 320, 294, 268, 244,
     220, 198, 177, 157, 138, 121, 104, 89, 75, 62, 50, 40, 30, 22, 16, 10,
     6, 2, 1, 0 >>

(* new FFTProcessor(size): the size and the tables of the constructor.    *)
(* The entries of cosTable and sinTable count tableUnit-ths, those of     *)
(* window count windowUnit-ths.                                           *)
Processor4 ==
  [ size |-> FFT_SIZE, cosTable |-> cosTable, sinTable |-> sinTable,
    window |-> windowQuarters, tableUnit |-> 1, windowUnit |-> 4 ]

Processor256 ==
  [ size |-> 256, cosTable |-> cosTable256, sinTable |-> sinTable256,
    window |-> window256, tableUnit |-> 4096, windowUnit |-> 4096 ]

(* An array given by its entries, held as a sequence of values. *)
AsSeq(f) == SubSeq(f, 1, Len(f))

(* compute, lines 41-45: real[i] = (samples[i] || 0) * window[i], imag 0. *)
(* The scratch arrays are indexed from 0 in the code, from 1 here.        *)
WindowedOf(P, samples) ==
  [ re |-> AsSeq([i \in 1..P.size |->
                    ((IF i <= Len(samples) THEN samples[i] ELSE 0)
                       * P.window[i]) \div P.windowUnit]),
    im |-> AsSeq([i \in 1..P.size |-> 0]) ]

Windowed(samples) == WindowedOf(Processor4, samples)

Swap(f, i, j) == [f EXCEPT ![i] = f[j], ![j] = f[i]]

(* while (k <= j) { j -= k; k >>= 1 }  j += k *)
RECURSIVE BitRevNext(_, _)
BitRevNext(j, k) ==
  IF k <= j /\ k > 0 THEN BitRevNext(j - k, k \div 2) ELSE j + k

(* compute, lines 47-60: the bit-reversal loop up to iteration last, from *)
(* the loop state st: the arrays c and the counters i and j (from 0).     *)
RECURSIVE BitRevLoop(_, _, _)
BitRevLoop(n, st, last) ==
  IF st.i >= last THEN st
  ELSE BitRevLoop(n,
         [ c |-> IF st.i < st.j
                   THEN [re |-> Swap(st.c.re, st.i + 1, st.j + 1),
                         im |-> Swap(st.c.im, st.i + 1, st.j + 1)]
                   ELSE st.c,
           i |-> st.i + 1,
           j |-> BitRevNext(st.j, n \div 2) ],
         last)

(* The whole loop for (i = 0; i < n - 1; i++), sixteen iterations at a    *)
(* time.                                                                  *)
RECURSIVE BitRevBlocks(_, _)
BitRevBlocks(n, st) ==
  IF st.i >= n - 1 THEN st.c
  ELSE BitRevBlocks(n, BitRevLoop(n, st, Min(st.i + 16, n - 1)))

BitReverseOf(n, c) == BitRevBlocks(n, [ c |-> c, i |-> 0, j |-> 0 ])

(* Mutant of TwiddledOf: the twiddle factor is left out. *)
TwiddledOf_NoTwiddle(P, c, hi, kk) == [ re |-> c.re[hi + 1], im |-> c.im[hi + 1] ]

(* compute, lines 68-73: tReal and tImag of one butterfly, from the entry *)
(* at the 0-based index hi and the twiddle index kk.                      *)
TwiddledOf(P, c, hi, kk) ==
  [ re |-> (c.re[hi + 1] * P.cosTable[kk + 1]
              + c.im[hi + 1] * P.sinTable[kk + 1]) \div P.tableUnit,
    im |-> (c.im[hi + 1] * P.cosTable[kk + 1]
              - c.re[hi + 1] * P.sinTable[kk + 1]) \div P.tableUnit ]

(* compute, lines 66-78: the butterflies of one stage.  Every index x is  *)
(* in exactly one butterfly of the stage: the one on lo = i + jj and      *)
(* hi = lo + halfSize with jj = (x mod size) mod halfSize; entry lo       *)
(* becomes c[lo] + t and entry hi becomes c[lo] - t.                      *)
StageOf(P, c, size) ==
  LET halfSize == size \div 2
      IsLo(x) == x % size < halfSize
      Lo(x) == IF IsLo(x) THEN x ELSE x - halfSize
      T(x) == TwiddledOf(P, c, Lo(x) + halfSize,
                         (Lo(x) % size) * (P.size \div size))
  IN [ re |-> AsSeq([ x1 \in 1..P.size |->
                  IF IsLo(x1 - 1) THEN c.re[Lo(x1 - 1) + 1] + T(x1 - 1).re
                                  ELSE c.re[Lo(x1 - 1) + 1] - T(x1 - 1).re ]),
       im |-> AsSeq([ x1 \in 1..P.size |->
                  IF IsLo(x1 - 1) THEN c.im[Lo(x1 - 1) + 1] + T(x1 - 1).im
                                  ELSE c.im[Lo(x1 - 1) + 1] - T(x1 - 1).im ]) ]

(* compute, lines 63-80: the loop over size = 2, 4, ..., n. *)
RECURSIVE ButterfliesOf(_, _, _)
ButterfliesOf(P, c, size) ==
  IF size > P.size THEN c
  ELSE ButterfliesOf(P, StageOf(P, c, size), 2 * size)

(* compute, lines 47-80: the permutation and the butterflies, in place. *)
TransformOf(P, c) == ButterfliesOf(P, BitReverseOf(P.size, c), 2)

Transform(c) == TransformOf(Processor4, c)

(* compute, lines 83-88: the magnitudes of bins 0 .. size/2 - 1, as a     *)
(* sequence (bin k at index k + 1); the square root is rounded down.      *)
MagnitudesOf(P, c) ==
  AsSeq([k \in 1..(P.size \div 2) |->
           ISqrt(c.re[k] * c.re[k] + c.im[k] * c.im[k])])

Magnitudes(c) == MagnitudesOf(Processor4, c)

(* compute(samples) on a processor as constructed *)
computeOf(P, samples) == MagnitudesOf(P, TransformOf(P, WindowedOf(P, samples)))

compute(samples) == computeOf(Processor4, samples)

(* new Float32Array(size), twice: the scratch arrays as constructed *)
FreshScratch ==
  [ re |-> [i \in 1..FFT_SIZE |-> 0], im |-> [i \in 1..FFT_SIZE |-> 0] ]

(* Mutant of Load: imag is not cleared. *)
Load_KeepImag(c, samples) == [ re |-> Windowed(samples).re, im |-> c.im ]

(* compute, lines 42-45, on a processor whose scratch arrays hold c:      *)
(* every entry of real and of imag is assigned.                           *)
Load(c, samples) == Windowed(samples)

(* The scratch arrays compute(samples) leaves, starting from c. *)
computeOn(c, samples) == Transform(Load(c, samples))

(* lowBin = max(1, floor(lowFreq / freqResolution)),                      *)
(* highBin = ceil(highFreq / freqResolution),                             *)
(* freqResolution = SAMPLE_RATE / size                                    *)
(* for an FFTProcessor of the given size *)
LowBinOf(size, lowFreq) == Max(1, (lowFreq * size) \div SAMPLE_RATE)
HighBinOf(size, highFreq) ==
  (highFreq * size + SAMPLE_RATE - 1) \div SAMPLE_RATE

(* The bins i with lowBin <= i <= highBin and i < magnitudes.length. *)
BandBinsOf(size, magnitudes, lowFreq, highFreq) ==
  { i \in LowBinOf(size, lowFreq)..HighBinOf(size, highFreq) :
      i < Len(magnitudes) }

(* The same for the processor of the handler, whose size is FFT_SIZE. *)
LowBin(lowFreq) == LowBinOf(FFT_SIZE, lowFreq)
HighBin(highFreq) == HighBinOf(FFT_SIZE, highFreq)

BandBins(magnitudes, lowFreq, highFreq) ==
  BandBinsOf(FFT_SIZE, magnitudes, lowFreq, highFreq)

RECURSIVE SumPower(_, _)
SumPower(magnitudes, bins) ==
  IF bins = {} THEN 0
  ELSE LET i == CHOOSE x \in bins : TRUE
       IN magnitudes[i + 1] * magnitudes[i + 1]
          + SumPower(magnitudes, bins \ {i})

(* count > 0 ? sum / count : 0, over the bins of the loop *)
AveragePower(magnitudes, bins) ==
  IF bins = {} THEN 0
  ELSE SumPower(magnitudes, bins) \div Cardinality(bins)

(* getBandPower(magnitudes, lowFreq, highFreq) of a processor of the      *)
(* given size                                                             *)
getBandPowerOf(size, magnitudes, lowFreq, highFreq) ==
  AveragePower(magnitudes, BandBinsOf(size, magnitudes, lowFreq, highFreq))

(* getBandPower(magnitudes, lowFreq, highFreq): count > 0 ? sum / count : 0 *)
getBandPower(magnitudes, lowFreq, highFreq) ==
  AveragePower(magnitudes, BandBins(magnitudes, lowFreq, highFreq))

(* ------------------------- MuseHandler: fields ------------------------ *)
BandNames == {"delta", "theta", "alpha", "beta", "gamma"}

NoEv == [kind |-> "none"]

NoCall == [fn |-> "none"]

(* The fields of a MuseHandler as constructed. *)
MuseInit ==
  /\ _connected = FALSE
  /\ _connectionMode = "none"
  /\ _lastUpdate = 0
  /\ osc = 0
  /\ sockets = << >>
  /\ reconnectInterval = Null
  /\ museClient = FALSE
  /\ eegBuffers = << << >>, << >>, << >>, << >> >>
  /\ _bands = ZeroBands
  /\ _bandsSmooth = ZeroBands
  /\ _history = [b \in BandNames |-> << >>]
  /\ _electrodeQuality = << 4, 4, 4, 4 >>
  /\ _acc = [x |-> 0, y |-> 0, z |-> 0]
  /\ ev = NoEv
  /\ delivered = 0
  /\ wasDisconnected = FALSE
  /\ userDisconnected = FALSE
  /\ timers = 0

(* ------------------------------ actions ------------------------------- *)
(* lastSession before any session was saved (null in the code) *)
NoSession == [id |-> Null]

(* useSession as first rendered: the useState and useRef initial values. *)
SessionInit ==
  /\ currentUser = Null
  /\ screen = "setup"
  /\ isSessionActive = FALSE
  /\ sessionStartTime = Null
  /\ sessionDuration = 0
  /\ flowStateTime = 0
  /\ longestStreak = 0
  /\ currentStreak = 0
  /\ coherenceHistory = << >>
  /\ flowStateStartRef = Null
  /\ lastCoherenceTimeRef = 0
  /\ lastSession = NoSession
  /\ reports = << >>
  /\ reported = 0

NoImport == [outcome |-> "none"]

(* An empty localStorage: getUsers and getAllSessions return []. *)
StorageInit ==
  /\ users = << >>
  /\ sessions = << >>
  /\ uuids = 0
  /\ imported = NoImport

(* new AudioEngine(): the field initialisers, DEFAULT_CONFIG, no          *)
(* oscillator created and no timeout pending.  An oscillator is known by  *)
(* its position in oscillators; 0 stands for null.                        *)
NewAudioEngine ==
  [ ctx                  |-> FALSE,
    binauralLeft         |-> 0,
    binauralRight        |-> 0,
    isochronicVoices     |-> << >>,
    rewardSubOsc         |-> 0,
    rewardSynthOsc       |-> 0,
    entrainmentType      |-> "none",
    isochronicTones      |-> 0,
    isEntrainmentPlaying |-> FALSE,
    isRewardPlaying      |-> FALSE,
    oscillators          |-> << >>,
    entrainmentTimeouts  |-> << >>,
    rewardTimeouts       |-> 0,
    stopped              |-> {} ]

(* useAudio as first rendered, and the App effect after the first render. *)
AudioInit ==
  /\ audioEngine = NewAudioEngine
  /\ isRewardPlaying = FALSE
  /\ isInitialized = FALSE
  /\ entrainmentEnabled = FALSE
  /\ entrainmentType = "none"
  /\ effectPending = FALSE

(* A FlowStateDetector as constructed, and the hook's initial state. *)
HookInit ==
  /\ SessionInit
  /\ StorageInit
  /\ AudioInit
  /\ now = 1
  /\ conditionMetSince = Null
  /\ recentAlphaValues = << >>
  /\ recentBetaValues = << >>
  /\ isActive = FALSE
  /\ fs = INITIAL_FLOW_STATE
  /\ coherence = 0
  /\ obs = NoObs
  /\ runStart = Null
  /\ prevRun = 0
  /\ op = "init"
  /\ call = NoCall
  /\ scratch = FreshScratch

(* new FlowStateDetector(config): DEFAULT_CONFIG overridden by config *)
InitDetector ==
  /\ HookInit
  /\ MuseInit
  /\ \E s \in SustainChoices :
       config = Merge(DEFAULT_CONFIG, [sustainedMs |-> s])

(* Lines 104-109 of the update loop at time t: update(b, m, q) on the     *)
(* detector, setFlowState of what it returns, and setCoherence of         *)
(* calculateCoherence(b, fsState.signalVariance, q).                      *)
DetectorTick(b, m, q, t) ==
  \E r \in {DetectorUpdate(Detector, b, m, q, t)} :
     /\ conditionMetSince' = r.conditionMetSince
     /\ recentAlphaValues' = r.recentAlphaValues
     /\ recentBetaValues' = r.recentBetaValues
     /\ isActive' = r.isActive
     /\ fs' = r.fs
     /\ coherence' = calculateCoherence(b, r.fs.signalVariance, q)
     /\ obs' = [ bands |-> b, motion |-> m, quality |-> q,
                 signalValid |-> r.signalValid,
                 conditionsMet |-> r.conditionsMet,
                 entered |-> r.entered, exited |-> r.exited,
                 wasActive |-> isActive,
                 wasSince |-> conditionMetSince,
                 enteredLast |-> IF r.entered THEN TRUE
                                 ELSE IF r.exited THEN FALSE
                                 ELSE obs.enteredLast ]
     /\ runStart' = IF r.conditionsMet
                      THEN (IF runStart # Null THEN runStart ELSE t)
                      ELSE Null
     /\ prevRun' = IF ~r.conditionsMet /\ runStart # Null
                     THEN now - runStart ELSE prevRun
     /\ op' = "update"
     /\ UNCHANGED config

(* One tick: Date.now() has advanced by dt, then update(b, m, q). *)
Update(b, m, q, dt) ==
  /\ now + dt <= MaxTime
  /\ now' = now + dt
  /\ DetectorTick(b, m, q, now + dt)
  /\ UNCHANGED << museVars, fnVars >>

Tick ==
  \E i \in DetectorInputs, dt \in 0..MaxStep :
     Update(i.bands, i.motion, i.quality, dt)

(* reset(): back to the constructed state, the configuration kept. *)
DetectorReset ==
  /\ conditionMetSince' = Null
  /\ isActive' = FALSE
  /\ recentAlphaValues' = << >>
  /\ recentBetaValues' = << >>
  /\ runStart' = Null
  /\ prevRun' = 0
  /\ obs' = [NoObs EXCEPT !.enteredLast = obs.enteredLast]
  /\ UNCHANGED config

Reset ==
  /\ DetectorReset
  /\ op' = "reset"
  /\ UNCHANGED << now, fnVars, fs, coherence, museVars >>

NextDetector == Tick \/ Reset

SpecDetector == InitDetector /\ [][NextDetector]_vars

(* ------------------ detector with a changing configuration ------------ *)
(* Partial configurations handed to setConfig: sustain durations that are *)
(* negative, zero and positive, and a stricter ratio threshold.           *)
ConfigUpdates ==
  { [sustainedMs |-> 0 - 1],
    [sustainedMs |-> 0],
    [sustainedMs |-> 2],
    [sustainedMs |-> 2, betaAlphaRatioThreshold |-> (6 * Scale) \div 10] }

(* setConfig(partial): this.config = { ...this.config, ...partial } *)
SetConfig(partial) ==
  /\ config' = Merge(config, partial)
  /\ op' = "setConfig"
  /\ UNCHANGED << now, fnVars, conditionMetSince, recentAlphaValues,
                  recentBetaValues, isActive, hookVars, museVars >>

Configure == \E partial \in ConfigUpdates : SetConfig(partial)

(* new FlowStateDetector({}) *)
InitDetectorCfg == HookInit /\ MuseInit /\ config = DEFAULT_CONFIG

(* The inputs of the ticks between configuration changes: the two calm   *)
(* signals, contact below the gate, and beta above alpha.                 *)
DetectorInputsCfg ==
  { In(Bands(100, 200, 400, 100,  50),   0, 1000),
    In(Bands(100, 200, 300, 200,  50),   0,  500),
    In(Bands(100, 200, 400, 100,  50),   0,  375),
    In(Bands(100, 100, 100, 400,  50),   0, 1000) }

TickCfg ==
  \E i \in DetectorInputsCfg, dt \in 0..MaxStep :
     Update(i.bands, i.motion, i.quality, dt)

NextDetectorCfg == TickCfg \/ Reset \/ Configure

SpecDetectorCfg == InitDetectorCfg /\ [][NextDetectorCfg]_vars

(* --------------------- negligible alpha: the ratio --------------------- *)
(* A calm signal, then alpha at 0.010, at 0.011 and at 0, each with some  *)
(* beta.                                                                  *)
DetectorInputsRatio ==
  { In(Bands(100, 200, 400, 100,  50),   0, 1000),
    In(Bands(400, 400,  10,   5,   0),   0, 1000),
    In(Bands(400, 400,  11,   5,   0),   0, 1000),
    In(Bands(400, 400,   0,   5,   0),   0, 1000) }

TickRatio ==
  \E i \in DetectorInputsRatio, dt \in 0..MaxStep :
     Update(i.bands, i.motion, i.quality, dt)

(* setConfig({ betaAlphaRatioThreshold: 11 }): a threshold above the      *)
(* sentinel ratio.                                                        *)
ConfigureRatio == SetConfig([betaAlphaRatioThreshold |-> 11 * Scale])

NextRatio == TickRatio \/ ConfigureRatio

SpecRatio == InitDetectorCfg /\ [][NextRatio]_vars

(* ------------------- MuseHandler: band updates ------------------------ *)
(* The result of a division by zero, and of arithmetic on it. *)
NaN == 0 - 2

(* smoothingFactor = 0.85, in hundredths *)
smoothingFactor == 85

(* Mutant of Clamp01: the value is stored as it came. *)
Clamp01_None(value) == value

(* Math.max(0, Math.min(1, value)) *)
Clamp01(value) == IF value = NaN THEN NaN ELSE Max(0, Min(Scale, value))

(* _bandsSmooth[band] * smoothingFactor + value * (1 - smoothingFactor) *)
Smooth(prev, value) ==
  IF prev = NaN \/ value = NaN THEN NaN
  ELSE (prev * smoothingFactor + value * (100 - smoothingFactor)) \div 100

(* Mutant of PushHistory: nothing is evicted. *)
PushHistory_NoEvict(h, value) == Append(h, value)

(* push(value), then shift() if longer than historyLength *)
PushHistory(h, value) ==
  LET pushed == Append(h, value)
  IN IF Len(pushed) > museHistoryLength THEN Tail(pushed) ELSE pushed

(* The band state updateBand works on. *)
BandData == [bands |-> _bands, smooth |-> _bandsSmooth, history |-> _history]

(* updateBand(band, value) *)
updateBand(d, band, value) ==
  [ bands   |-> [d.bands EXCEPT ![band] = Clamp01(value)],
    smooth  |-> [d.smooth EXCEPT ![band] = Smooth(@, Clamp01(value))],
    history |-> [d.history EXCEPT ![band] = PushHistory(@, Clamp01(value))] ]

SetBandData(d) ==
  /\ _bands' = d.bands
  /\ _bandsSmooth' = d.smooth
  /\ _history' = d.history

(* ----------------------- MuseHandler: OSC messages -------------------- *)
(* An OSC argument: a number (in thousandths), NaN, an infinity, or a     *)
(* value that is not a number at all.                                     *)
Num(v) == [k |-> "num", v |-> v]
NaNArg == [k |-> "nan", v |-> 0]
InfArg == [k |-> "inf", v |-> 0]
TextArg == [k |-> "text", v |-> 0]

(* typeof v === 'number' && !isNaN(v) && isFinite(v) *)
IsValidNumber(e) == e.k = "num"

RECURSIVE SumArgs(_)
SumArgs(args) == IF args = << >> THEN 0 ELSE Head(args).v + SumArgs(Tail(args))

(* parseValue(args), args an array: the mean of its valid numbers, 0 if   *)
(* there is none.                                                         *)
parseValue(args) ==
  LET valid == SelectSeq(args, IsValidNumber)
  IN IF Len(valid) = 0 THEN 0 ELSE SumArgs(valid) \div Len(valid)

(* The band an address updates, "none" for every other address. *)
BandOf(address) ==
  CASE address = "/muse/elements/delta_relative" -> "delta"
    [] address = "/muse/elements/theta_relative" -> "theta"
    [] address = "/muse/elements/alpha_relative" -> "alpha"
    [] address = "/muse/elements/beta_relative" -> "beta"
    [] address = "/muse/elements/gamma_relative" -> "gamma"
    [] OTHER -> "none"

(* handleOSCMessage({address, args}) *)
handleOSCMessage(address, args) ==
  IF address = ""
    THEN UNCHANGED << _lastUpdate, _bands, _bandsSmooth, _history,
                      _acc, _electrodeQuality >>
    ELSE /\ _lastUpdate' = now
         /\ IF BandOf(address) # "none"
              THEN /\ SetBandData(updateBand(BandData, BandOf(address),
                                             parseValue(args)))
                   /\ UNCHANGED << _acc, _electrodeQuality >>
            ELSE IF address = "/muse/acc" /\ Len(args) >= 3
              THEN /\ _acc' = [x |-> args[1].v, y |-> args[2].v,
                               z |-> args[3].v]
                   /\ UNCHANGED << _bands, _bandsSmooth, _history,
                                   _electrodeQuality >>
            ELSE IF address = "/muse/elements/horseshoe" /\ Len(args) >= 4
              THEN /\ _electrodeQuality' = << args[1].v, args[2].v,
                                              args[3].v, args[4].v >>
                   /\ UNCHANGED << _bands, _bandsSmooth, _history, _acc >>
            ELSE UNCHANGED << _bands, _bandsSmooth, _history, _acc,
                              _electrodeQuality >>

(* A message arrives on socket id, whose '*' listener calls               *)
(* handleOSCMessage.                                                      *)
OscMessage(id, address, args) ==
  /\ delivered < MaxEvents
  /\ id \in 1..Len(sockets)
  /\ sockets[id] = "open"
  /\ handleOSCMessage(address, args)
  /\ ev' = [kind |-> "osc", address |-> address, args |-> args,
            wasFull |-> /\ BandOf(address) # "none"
                        /\ Len(_history[BandOf(address)]) = museHistoryLength]
  /\ delivered' = delivered + 1
  /\ op' = "osc"
  /\ UNCHANGED << now, fnVars, detVars, hookVars, connVars, eegBuffers,
                  wasDisconnected, connGhost >>

(* --------------------- MuseHandler: Bluetooth readings ---------------- *)
(* Mutant of TrimBuffer: the newest samples are dropped, not the oldest. *)
TrimBuffer_KeepOldest(buf) ==
  IF Len(buf) > FFT_SIZE THEN SubSeq(buf, 1, FFT_SIZE) ELSE buf

(* while (buffer.length > FFT_SIZE) buffer.shift() *)
TrimBuffer(buf) ==
  IF Len(buf) > FFT_SIZE
    THEN SubSeq(buf, Len(buf) - FFT_SIZE + 1, Len(buf))
    ELSE buf

(* The five band powers of one channel's buffer, on the processor P. *)
ChannelPowersOf(P, buf) ==
  LET magnitudes == With(computeOf(P, highPassFilter(buf)), LAMBDA m : m)
  IN [ delta |-> getBandPowerOf(P.size, magnitudes, 1, 4),
       theta |-> getBandPowerOf(P.size, magnitudes, 4, 8),
       alpha |-> getBandPowerOf(P.size, magnitudes, 8, 13),
       beta  |-> getBandPowerOf(P.size, magnitudes, 13, 30),
       gamma |-> getBandPowerOf(P.size, magnitudes, 30, 44) ]

ChannelPowers(buf) == ChannelPowersOf(Processor4, buf)

(* Mutant of ValidChannels: no channel is skipped. *)
ValidChannels_All(buffers) == { ch \in 1..4 : Len(buffers[ch]) >= 0 }

(* The channels (1..4 here, 0..3 in the code) that are not skipped. *)
ValidChannels(buffers) == { ch \in 1..4 : Len(buffers[ch]) >= FFT_SIZE }

RECURSIVE SumChannels(_, _, _)
SumChannels(buffers, chans, band) ==
  IF chans = {} THEN 0
  ELSE LET ch == CHOOSE c \in chans : TRUE
       IN ChannelPowers(buffers[ch])[band]
          + SumChannels(buffers, chans \ {ch}, band)

(* bandPowers summed over the valid channels, then divided by their number *)
AveragedPowers(buffers, valid) ==
  [ band \in BandNames |->
      SumChannels(buffers, valid, band) \div Cardinality(valid) ]

(* the 1/f correction: theta *= 1.5, alpha *= 2, beta *= 3, gamma *= 4 *)
SlopeCorrected(p) ==
  [ delta |-> p.delta,
    theta |-> (p.theta * 3) \div 2,
    alpha |-> p.alpha * 2,
    beta  |-> p.beta * 3,
    gamma |-> p.gamma * 4 ]

(* bandPowers[band] / totalPower *)
RelativePower(power, totalPower) ==
  IF totalPower = 0 THEN NaN ELSE (Scale * power) \div totalPower

RelativePowers(p, totalPower) ==
  [ band \in BandNames |-> RelativePower(p[band], totalPower) ]

ShouldUpdate_Always(totalPower) == TRUE

(* if (totalPower > 0) *)
ShouldUpdate(totalPower) == totalPower > 0

(* the five updateBand calls, in the order of the code *)
UpdateAllBands(d, rel) ==
  updateBand(
    updateBand(
      updateBand(
        updateBand(
          updateBand(d, "delta", rel.delta),
          "theta", rel.theta),
        "alpha", rel.alpha),
      "beta", rel.beta),
    "gamma", rel.gamma)

(* processBluetoothFFT() on the buffers: what it found and the band state *)
(* it leaves.                                                             *)
FFTOutcome(d, valid, p, totalPower) ==
  IF valid = {}
    THEN [ data |-> d, validChannels |-> 0, totalPower |-> 0,
           relative |-> << >> ]
  ELSE IF ShouldUpdate(totalPower)
    THEN [ data |-> UpdateAllBands(d, RelativePowers(p, totalPower)),
           validChannels |-> Cardinality(valid), totalPower |-> totalPower,
           relative |-> RelativePowers(p, totalPower) ]
  ELSE [ data |-> d, validChannels |-> Cardinality(valid),
         totalPower |-> totalPower, relative |-> << >> ]

FFTPowers(d, valid, p) ==
  FFTOutcome(d, valid, p, p.delta + p.theta + p.alpha + p.beta + p.gamma)

processBluetoothFFT(d, buffers) ==
  IF ValidChannels(buffers) = {}
    THEN FFTOutcome(d, {}, ZeroBands, 0)
    ELSE FFTPowers(d, ValidChannels(buffers),
                   SlopeCorrected(AveragedPowers(buffers,
                                                 ValidChannels(buffers))))

(* Mutant of ShouldProcess: any channel whose buffer is full. *)
ShouldProcess_AnyChannel(channel, buffers) ==
  Len(buffers[channel + 1]) >= FFT_SIZE

(* if (channel === 0 && this.eegBuffers[0].length >= FFT_SIZE) *)
ShouldProcess(channel, buffers) ==
  channel = 0 /\ Len(buffers[1]) >= FFT_SIZE

(* handleBluetoothEEG({electrode: channel, samples}) *)
handleBluetoothEEG(channel, samples) ==
  /\ _lastUpdate' = now
  /\ IF channel < 0 \/ channel > 3
       THEN /\ UNCHANGED << eegBuffers, _bands, _bandsSmooth, _history >>
            /\ ev' = [kind |-> "eeg", channel |-> channel,
                      samples |-> samples, held |-> 0, fft |-> FALSE]
     ELSE \E buffers \in
            {[eegBuffers EXCEPT ![channel + 1] = TrimBuffer(@ \o samples)]} :
       /\ eegBuffers' = buffers
       /\ IF ShouldProcess(channel, buffers)
            THEN \E r \in {processBluetoothFFT(BandData, buffers)} :
                   /\ SetBandData(r.data)
                   /\ ev' = [kind |-> "eeg", channel |-> channel,
                             samples |-> samples,
                             held |-> Len(eegBuffers[channel + 1]),
                             fft |-> TRUE,
                             validChannels |-> r.validChannels,
                             totalPower |-> r.totalPower,
                             relative |-> r.relative]
            ELSE /\ UNCHANGED << _bands, _bandsSmooth, _history >>
                 /\ ev' = [kind |-> "eeg", channel |-> channel,
                           samples |-> samples,
                           held |-> Len(eegBuffers[channel + 1]),
                           fft |-> FALSE]

(* The eegReadings subscription delivers a reading. *)
EegReading(channel, samples) ==
  /\ delivered < MaxEvents
  /\ museClient
  /\ handleBluetoothEEG(channel, samples)
  /\ delivered' = delivered + 1
  /\ op' = "eeg"
  /\ UNCHANGED << now, fnVars, detVars, hookVars, connVars, _acc, _electrodeQuality,
                  wasDisconnected, connGhost >>

(* --------------------- MuseHandler: connections ----------------------- *)
(* isReceivingData(): Date.now() - _lastUpdate < 2000 *)
isReceivingData == (now - _lastUpdate) * TimeUnitMs < 2000

(* get connected() *)
connected == _connected /\ isReceivingData

(* connectBluetooth(), the device found and started *)
ConnectBluetooth ==
  /\ ~_connected
  /\ museClient' = TRUE
  /\ _connected' = TRUE
  /\ _connectionMode' = "bluetooth"
  /\ _lastUpdate' = now
  /\ userDisconnected' = FALSE
  /\ op' = "connectBluetooth"
  /\ UNCHANGED << now, fnVars, detVars, hookVars, osc, sockets, reconnectInterval,
                  dataVars, delivered, wasDisconnected, timers >>

(* The connectionStatus subscription reports false:                       *)
(* handleBluetoothDisconnect().                                           *)
BluetoothLost ==
  /\ museClient
  /\ museClient' = FALSE
  /\ _connected' = FALSE
  /\ _connectionMode' = "none"
  /\ eegBuffers' = << << >>, << >>, << >>, << >> >>
  /\ wasDisconnected' = TRUE
  /\ op' = "bluetoothLost"
  /\ UNCHANGED << now, fnVars, detVars, hookVars, osc, sockets, reconnectInterval,
                  _bands, _bandsSmooth, _history, _electrodeQuality, _acc,
                  ev, _lastUpdate, delivered, connGhost >>

(* Where a new socket goes: the place of a socket that has closed (it    *)
(* delivers nothing any more), else a new place.                          *)
FreeSlot ==
  IF \E i \in 1..Len(sockets) : sockets[i] = "closed"
    THEN CHOOSE i \in 1..Len(sockets) :
           /\ sockets[i] = "closed"
           /\ \A j \in 1..(i - 1) : sockets[j] # "closed"
    ELSE Len(sockets) + 1

(* connectOSC(url): returns at once if this.osc is set, else creates a    *)
(* socket, registers its listeners and opens it.                          *)
connectOSC ==
  IF osc # 0
    THEN UNCHANGED << osc, sockets >>
    ELSE /\ sockets' = IF FreeSlot <= Len(sockets)
                         THEN [sockets EXCEPT ![FreeSlot] = "connecting"]
                         ELSE Append(sockets, "connecting")
         /\ osc' = FreeSlot

ConnectOSC ==
  /\ osc = 0
  /\ FreeSlot <= MaxSockets
  /\ connectOSC
  /\ userDisconnected' = FALSE
  /\ op' = "connectOSC"
  /\ UNCHANGED << now, fnVars, detVars, hookVars, _connected, _connectionMode,
                  reconnectInterval, museClient, dataVars, _lastUpdate,
                  delivered, wasDisconnected, timers >>

(* The 'open' listener of socket id. *)
SocketOpen(id) ==
  /\ sockets[id] = "connecting"
  /\ sockets' = [sockets EXCEPT ![id] = "open"]
  /\ _connected' = TRUE
  /\ _connectionMode' = "osc"
  /\ op' = "open"
  /\ UNCHANGED << now, fnVars, detVars, hookVars, osc, reconnectInterval, museClient,
                  dataVars, _lastUpdate, delivered, wasDisconnected, connGhost >>

(* Mutant of ShouldSchedule: a timer is set whether or not one is pending. *)
ShouldSchedule_Always == TRUE

(* if (!this.reconnectInterval) *)
ShouldSchedule == reconnectInterval = Null

(* The 'close' listener of socket id: the socket failed to open, was      *)
(* dropped, or had been closed by disconnect().  It schedules the         *)
(* reconnect timer, 3000 ms ahead, unless one is pending.                 *)
SocketClose(id) ==
  /\ sockets[id] \in {"connecting", "open", "closing"}
  /\ sockets' = [sockets EXCEPT ![id] = "closed"]
  /\ _connected' = FALSE
  /\ _connectionMode' = "none"
  /\ osc' = 0
  /\ reconnectInterval' =
       IF ShouldSchedule
         THEN now + (3000 \div TimeUnitMs) ELSE reconnectInterval
  /\ timers' = IF ShouldSchedule THEN timers + 1 ELSE timers
  /\ wasDisconnected' = TRUE
  /\ op' = "close"
  /\ UNCHANGED << now, fnVars, detVars, hookVars, museClient, dataVars, _lastUpdate,
                  delivered, userDisconnected >>

(* The reconnect timer fires: reconnectInterval = null, and connectOSC    *)
(* again if not connected.                                                *)
ReconnectTimer ==
  /\ reconnectInterval # Null
  /\ now >= reconnectInterval
  /\ _connected \/ osc # 0 \/ FreeSlot <= MaxSockets
  /\ reconnectInterval' = Null
  /\ timers' = timers - 1
  /\ IF ~_connected THEN connectOSC ELSE UNCHANGED << osc, sockets >>
  /\ op' = "reconnect"
  /\ UNCHANGED << now, fnVars, detVars, hookVars, _connected, _connectionMode,
                  museClient, dataVars, _lastUpdate, delivered,
                  wasDisconnected, userDisconnected >>

(* MuseHandler.disconnect() *)
museDisconnect ==
  /\ museClient' = FALSE
  /\ reconnectInterval' = Null
  /\ timers' = IF reconnectInterval # Null THEN timers - 1 ELSE timers
  /\ sockets' = IF osc # 0 /\ sockets[osc] # "closed"
                  THEN [sockets EXCEPT ![osc] = "closing"] ELSE sockets
  /\ osc' = 0
  /\ _connected' = FALSE
  /\ _connectionMode' = "none"
  /\ eegBuffers' = << << >>, << >>, << >>, << >> >>

(* useMuse.disconnect(): the handler's disconnect(), the hook's state     *)
(* back to its initial values, and reset() of the detector.               *)
Disconnect ==
  /\ _connected \/ osc # 0 \/ museClient \/ reconnectInterval # Null
  /\ museDisconnect
  /\ fs' = INITIAL_FLOW_STATE
  /\ coherence' = 0
  /\ DetectorReset
  /\ wasDisconnected' = TRUE
  /\ userDisconnected' = TRUE
  /\ op' = "disconnect"
  /\ UNCHANGED << now, fnVars, _bands, _bandsSmooth, _history, _electrodeQuality,
                  _acc, ev, _lastUpdate, delivered >>

(* ------------------------- useMuse: update loop ----------------------- *)
(* Mutant of QualityOf: medium counts as much as good. *)
QualityOf_MediumFull(code) == IF code = 1 \/ code = 2 THEN Scale ELSE 0

(* One horseshoe code's contribution: good 1.0, medium 0.5, else 0. *)
QualityOf(code) == IF code = 1 THEN Scale ELSE IF code = 2 THEN Scale \div 2 ELSE 0

(* horseshoe.reduce(...) / 4 *)
electrodeQuality(horseshoe) ==
  (QualityOf(horseshoe[1]) + QualityOf(horseshoe[2])
     + QualityOf(horseshoe[3]) + QualityOf(horseshoe[4])) \div 4

Abs(x) == IF x < 0 THEN 0 - x ELSE x

(* Math.min(1, (|accX| + |accY| + |accZ|) / 30), the accelerometer        *)
(* values in thousandths                                                  *)
normalizedMotion(acc) == Min(Scale, (Abs(acc.x) + Abs(acc.y) + Abs(acc.z)) \div 30)

(* One animation frame of updateLoop: nothing unless                      *)
(* museHandler.connected.                                                 *)
UpdateLoop ==
  /\ IF connected
       THEN DetectorTick(_bandsSmooth, normalizedMotion(_acc),
                         electrodeQuality(_electrodeQuality), now)
       ELSE UNCHANGED << op, detVars, hookVars >>
  /\ UNCHANGED << now, fnVars, museVars >>

(* Time passes. *)
Pass(dt) ==
  /\ now + dt <= MaxClock
  /\ now' = now + dt
  /\ op' = "pass"
  /\ UNCHANGED << detVars, hookVars, museVars, fnVars >>

(* A timestamp ts after the epoch has moved forward by k; it is kept at   *)
(* floor or later.  Null stays Null.                                      *)
Rebase(ts, k, floor) == IF ts = Null THEN Null ELSE Max(floor, ts - k)

(* Time passes, without end.  The clock reads at most MaxClock: past      *)
(* that, the epoch moves forward instead, and every timestamp the program *)
(* holds moves back with it.  The program only compares ages with 2000    *)
(* ms, 3000 ms and sustainedMs, all below MaxClock, so an age is kept at  *)
(* MaxClock (MaxClock - 1 for the start of a run, 0 being no timestamp    *)
(* to the detector) once it is older.                                     *)
Elapse(dt) ==
  \E k \in {Max(0, now + dt - MaxClock)} :
     /\ now' = Min(MaxClock, now + dt)
     /\ _lastUpdate' = Rebase(_lastUpdate, k, 0)
     /\ reconnectInterval' = Rebase(reconnectInterval, k, 0)
     /\ conditionMetSince' = Rebase(conditionMetSince, k, 1)
     /\ runStart' = Rebase(runStart, k, 1)
     /\ op' = "pass"
     /\ UNCHANGED << config, recentAlphaValues, recentBetaValues, isActive,
                     fs, coherence, obs, prevRun, _connected,
                     _connectionMode, osc, sockets, museClient, dataVars,
                     delivered, wasDisconnected, connGhost, fnVars >>

(* ----------------------- the band data path --------------------------- *)
Msg(address, args) == [address |-> address, args |-> args]
Reading(channel, samples) == [channel |-> channel, samples |-> samples]

AlphaAddress == "/muse/elements/alpha_relative"

(* Messages a bridge may send: well-formed band values, band values that  *)
(* are empty, not numbers, not finite or outside [0, 1], and messages for *)
(* other addresses.                                                       *)
OscInputs ==
  { Msg(AlphaAddress, << Num(800) >>),
    Msg(AlphaAddress, << Num(400), Num(600) >>),
    Msg(AlphaAddress, << >>),
    Msg(AlphaAddress, << NaNArg >>),
    Msg(AlphaAddress, << InfArg >>),
    Msg(AlphaAddress, << TextArg >>),
    Msg(AlphaAddress, << Num(1500) >>),
    Msg(AlphaAddress, << Num(0 - 200) >>),
    Msg("/muse/elements/beta_relative", << Num(300) >>),
    Msg("/muse/elements/horseshoe", << Num(1), Num(1), Num(2), Num(4) >>),
    Msg("/muse/acc", << Num(3000), Num(0 - 6000), Num(0) >>),
    Msg("/muse/blink", << Num(1000) >>),
    Msg("", << Num(500) >>) }

(* Readings a headband may deliver: silent and oscillating windows, whole *)
(* and in halves, on channels 0, 1 and 2, and one for a channel that does *)
(* not exist.                                                             *)
ReadingInputs ==
  { Reading(0, << 0, 0, 0, 0 >>),
    Reading(0, << 0, 100, 0 - 100, 0 >>),
    Reading(0, << 100, 0 - 100 >>),
    Reading(1, << 0, 100, 0 - 100, 100 >>),
    Reading(1, << 0, 0 >>),
    Reading(2, << 300, 0 - 300 >>),
    Reading(4, << 100, 100 >>) }

OscEvent ==
  \E id \in 1..MaxSockets, m \in OscInputs : OscMessage(id, m.address, m.args)

EegEvent ==
  \E r \in ReadingInputs : EegReading(r.channel, r.samples)

Opens == \E id \in 1..Len(sockets) : SocketOpen(id)

Closes == \E id \in 1..Len(sockets) : SocketClose(id)

(* A handler as constructed, connected by either transport, receiving. *)
NextBands == ConnectBluetooth \/ ConnectOSC \/ Opens \/ OscEvent \/ EegEvent

SpecBands == InitDetectorCfg /\ [][NextBands]_vars

(* ------------------- readings on the four channels -------------------- *)
(* Whole windows on each of the four channels, and half a window on       *)
(* channels 0 and 1.                                                      *)
ReadingInputsChannels ==
  { Reading(0, << 0, 100, 0 - 100, 0 >>),
    Reading(0, << 100, 0 - 100 >>),
    Reading(1, << 0, 100, 0 - 100, 100 >>),
    Reading(1, << 50, 0 >>),
    Reading(2, << 300, 0 - 300, 300, 0 - 300 >>),
    Reading(3, << 0, 200, 0, 0 - 200 >>) }

EegEventChannels ==
  \E r \in ReadingInputsChannels : EegReading(r.channel, r.samples)

NextChannels == ConnectBluetooth \/ EegEventChannels

SpecChannels == InitDetectorCfg /\ [][NextChannels]_vars

(* ---------------- the whole pipeline, over an OSC bridge --------------- *)
OscInputsMuse ==
  { Msg("/muse/elements/horseshoe", << Num(1), Num(1), Num(1), Num(1) >>),
    Msg(AlphaAddress, << Num(800) >>) }

ReadingInputsMuse == { Reading(0, << 0, 100, 0 - 100, 0 >>) }

OscEventMuse ==
  \E id \in 1..MaxSockets, m \in OscInputsMuse :
     OscMessage(id, m.address, m.args)

EegEventMuse ==
  \E r \in ReadingInputsMuse : EegReading(r.channel, r.samples)

Passes == \E dt \in 1..MaxStep : Pass(dt)

NextMuse ==
  \/ ConnectOSC
  \/ Opens
  \/ Closes
  \/ ReconnectTimer
  \/ Disconnect
  \/ OscEventMuse
  \/ UpdateLoop
  \/ Passes

(* Mutant of ThresholdConfig: the factor 2 is left out. *)
ThresholdConfig_NoDouble(settings) ==
  [ sustainedMs |-> settings.timeThreshold \div TimeUnitMs,
    betaAlphaRatioThreshold |->
      Scale - (settings.coherenceThreshold - (7 * Scale) \div 10) ]

(* useMuse.setThresholdSettings(settings): setConfig of the sustain time  *)
(* and of the ratio threshold 1.0 - (coherenceThreshold - 0.7) * 2.       *)
ThresholdConfig(settings) ==
  [ sustainedMs |-> settings.timeThreshold \div TimeUnitMs,
    betaAlphaRatioThreshold |->
      Scale - (settings.coherenceThreshold - (7 * Scale) \div 10) * 2 ]

(* The application as mounted, the time threshold slider then moved to    *)
(* two seconds, before any connection is made.                            *)
InitMuse ==
  /\ HookInit
  /\ MuseInit
  /\ config = Merge(DEFAULT_CONFIG,
                    ThresholdConfig([coherenceThreshold |-> (7 * Scale) \div 10,
                                     timeThreshold |-> 2000]))

SpecMuse == InitMuse /\ [][NextMuse]_vars

(* The connection's life cycle alone: connecting, the socket opening and  *)
(* closing, the reconnect timer, disconnect() and the clock, with no      *)
(* message delivered and no animation frame.                              *)
NextReconnect ==
  \/ ConnectOSC
  \/ Opens
  \/ Closes
  \/ ReconnectTimer
  \/ Disconnect
  \/ Passes

SpecReconnect == InitMuse /\ [][NextReconnect]_vars

(* A socket that is connecting opens or fails, and a socket that was      *)
(* closed reports its close.                                              *)
Settles ==
  \E id \in 1..Len(sockets) :
     /\ sockets[id] \in {"connecting", "closing"}
     /\ SocketOpen(id) \/ SocketClose(id)

Elapses == \E dt \in 1..MaxStep : Elapse(dt)

NextMuseFair ==
  \/ ConnectOSC
  \/ Opens
  \/ Closes
  \/ ReconnectTimer
  \/ Disconnect
  \/ OscEventMuse
  \/ UpdateLoop
  \/ Elapses

(* The pipeline with a clock that never stops, and what the runtime       *)
(* guarantees: animation frames keep coming, the clock advances, a due    *)
(* timer fires, a socket operation completes.  Nothing obliges the        *)
(* headband to send, or the user to act.                                  *)
SpecMuseFair ==
  /\ InitMuse
  /\ [][NextMuseFair]_vars
  /\ WF_vars(UpdateLoop)
  /\ WF_vars(Elapses)
  /\ WF_vars(ReconnectTimer)
  /\ WF_vars(Settles)

(* The same over Bluetooth. *)
NextHeadband ==
  \/ ConnectBluetooth
  \/ BluetoothLost
  \/ Disconnect
  \/ EegEventMuse
  \/ UpdateLoop
  \/ Passes

SpecHeadband == InitMuse /\ [][NextHeadband]_vars

(* ------------------------ electrode contact --------------------------- *)
(* Contact reports: every choice of how many of the four electrodes are   *)
(* good, medium, poor and off (the codes in ascending order), and the     *)
(* four codes 1, 2, 3, 4 in every order.                                  *)
ContactCodes ==
  { << a, b, c, d >> : a \in 1..4, b \in 1..4, c \in 1..4, d \in 1..4 }

ContactReports ==
  { h \in ContactCodes :
      \/ h[1] <= h[2] /\ h[2] <= h[3] /\ h[3] <= h[4]
      \/ { h[i] : i \in 1..4 } = 1..4 }

(* A bridge that sends contact reports and an alpha value. *)
OscInputsContact ==
  { Msg("/muse/elements/horseshoe",
        << Num(h[1]), Num(h[2]), Num(h[3]), Num(h[4]) >>) : h \in ContactReports }
  \cup { Msg(AlphaAddress, << Num(800) >>) }

OscEventContact ==
  \E id \in 1..MaxSockets, m \in OscInputsContact :
     OscMessage(id, m.address, m.args)

NextContact == ConnectOSC \/ Opens \/ OscEventContact \/ UpdateLoop

SpecContact == InitMuse /\ [][NextContact]_vars

(* ------------------ thresholds replaced between ticks ------------------ *)
(* useMuse.setThresholdSettings(settings) *)
SetThresholdSettings(settings) ==
  /\ config' = Merge(config, ThresholdConfig(settings))
  /\ op' = "setThresholdSettings"
  /\ UNCHANGED << now, fnVars, conditionMetSince, recentAlphaValues,
                  recentBetaValues, isActive, hookVars, museVars >>

(* What the two sliders can be set to: a coherence threshold of 50 or 90  *)
(* percent and a time threshold of 1 or 3 seconds.                        *)
ThresholdInputs ==
  { [coherenceThreshold |-> c, timeThreshold |-> t] :
      c \in {Scale \div 2, (9 * Scale) \div 10}, t \in {1000, 3000} }

SetThresholds == \E settings \in ThresholdInputs : SetThresholdSettings(settings)

(* setConfig of a minimum alpha of 0.5 *)
ConfigureGate == SetConfig([minAlpha |-> Scale \div 2])

(* The inputs of the ticks: two calm signals, with beta / alpha of 0.25   *)
(* and of 0.67, and beta above alpha.                                     *)
DetectorInputsThr ==
  { In(Bands(100, 200, 400, 100,  50),   0, 1000),
    In(Bands(100, 200, 300, 200,  50),   0,  500),
    In(Bands(100, 100, 100, 400,  50),   0, 1000) }

TickThr ==
  \E i \in DetectorInputsThr, dt \in 0..MaxStep :
     Update(i.bands, i.motion, i.quality, dt)

NextThresholds == TickThr \/ SetThresholds \/ ConfigureGate

SpecThresholds == InitDetectorCfg /\ [][NextThresholds]_vars

(* -------------------------- the coherence scorer ---------------------- *)
(* Band snapshots handed to calculateCoherence: every band from zero to   *)
(* 1.0, with totals on both sides of 0.05 and alpha on both sides of 0.01 *)
ScorerBands ==
  { Bands(d, t, a, b, g) :
      d \in {0, 20}, t \in {0, 200, 1000}, a \in {0, 5, 9, 10, 15, 400, 1000},
      b \in {0, 10, 300, 1000}, g \in {0, 20} }

(* Variances, in squared thousandths: 0, 0.001, 0.04, 0.15, 0.25 and 4.0 *)
ScorerVariances ==
  { [num |-> n, den |-> 1] :
      n \in {0, Scale2 \div 1000, (4 * Scale2) \div 100,
             (15 * Scale2) \div 100, Scale2 \div 4, 4 * Scale2} }

(* Electrode qualities on both sides of 0.5 *)
ScorerQualities == {0, 375, 499, 500, 1000}

(* calculateCoherence(bands, variance, electrodeQuality) is called (one   *)
(* call of a pure function in each behaviour; the calls do not interact)  *)
Score(bands, variance, quality) ==
  /\ call = NoCall
  /\ call' = [ fn |-> "calculateCoherence", bands |-> bands,
               variance |-> variance, quality |-> quality,
               result |-> calculateCoherence(bands, variance, quality) ]
  /\ UNCHANGED << now, op, detVars, hookVars, museVars, scratch, appVars >>

Scores ==
  \E bands \in ScorerBands, variance \in ScorerVariances,
     quality \in ScorerQualities : Score(bands, variance, quality)

(* getCoherenceZone(c) is called *)
Zone(c) ==
  /\ call = NoCall
  /\ call' = [ fn |-> "getCoherenceZone", coherence |-> c,
               result |-> getCoherenceZone(c) ]
  /\ UNCHANGED << now, op, detVars, hookVars, museVars, scratch, appVars >>

Zones == \E c \in 0..Scale : Zone(c)

(* Sizes of an FFTProcessor: the one of the handler (256, a resolution of *)
(* 1 Hz) and two small ones (resolutions of 32 and 64 Hz).                *)
ProcessorSizes == {4, 8, 256}

(* Magnitude spectra of size / 2 bins: a ramp (bin k holds k + 1) and a   *)
(* flat spectrum.                                                         *)
Spectra(size) ==
  { [k \in 1..(size \div 2) |-> k], [k \in 1..(size \div 2) |-> 7] }

(* The edges of the five bands of processBluetoothFFT, and 0. *)
BandEdges == {0, 1, 4, 8, 13, 30, 44}

(* getBandPower(magnitudes, lowFreq, highFreq) is called on a processor   *)
(* of the given size                                                      *)
BandPower(size, magnitudes, lowFreq, highFreq) ==
  /\ call = NoCall
  /\ call' = [ fn |-> "getBandPower", size |-> size,
               magnitudes |-> magnitudes,
               lowFreq |-> lowFreq, highFreq |-> highFreq,
               bins |-> BandBinsOf(size, magnitudes, lowFreq, highFreq),
               result |-> getBandPowerOf(size, magnitudes, lowFreq, highFreq) ]
  /\ UNCHANGED << now, op, detVars, hookVars, museVars, scratch, appVars >>

BandPowers ==
  \E size \in ProcessorSizes, lowFreq \in BandEdges, highFreq \in BandEdges :
     /\ lowFreq < highFreq
     /\ \E magnitudes \in Spectra(size) :
          BandPower(size, magnitudes, lowFreq, highFreq)

(* Sample windows handed to compute: silent, oscillating, rising, short   *)
(* and empty.                                                             *)
Windows ==
  { << 0, 0, 0, 0 >>, << 0, 100, 0 - 100, 0 >>, << 100, 0 - 100, 100, 0 - 100 >>,
    << 0, 100, 0 - 100, 100 >>, << 100, 200, 300, 400 >>,
    << 0 - 50, 70, 20, 0 - 10 >>, << 300, 0 - 300 >>, << >> }

(* compute(samples) is called on the processor, after any number of       *)
(* earlier calls.                                                         *)
Compute(samples) ==
  /\ call.fn \in {"none", "compute"}
  /\ scratch' = computeOn(scratch, samples)
  /\ call' = [ fn |-> "compute", samples |-> samples,
               result |-> Magnitudes(scratch'),
               earlier |-> IF call.fn = "compute"
                             THEN << call.samples >> ELSE << >>,
               earlierResult |-> IF call.fn = "compute"
                                   THEN call.result ELSE << >> ]
  /\ UNCHANGED << now, op, detVars, hookVars, museVars, appVars >>

Computes == \E samples \in Windows : Compute(samples)

(* The pure functions, each called on an input of its domain. *)
(* sin(2 pi k / 256) in units of 1/4096, for any k >= 0 *)
SineAt(k) ==
  IF k % 256 < 128 THEN sinTable256[(k % 256) + 1]
                   ELSE 0 - sinTable256[(k % 256) - 128 + 1]

(* One second of a pure sine of freq Hz sampled at 256 Hz, of amplitude   *)
(* 300, starting at the given phase (in 256ths of a cycle).               *)
Tone(freq, phase) ==
  AsSeq([ i \in 1..256 |-> (300 * SineAt(freq * (i - 1) + phase)) \div 4096 ])

ToneFreqs == {10, 20}
TonePhases == {0, 32, 64}

(* processBluetoothFFT() on the 256-point processor of the code, every    *)
(* channel holding the same full window: the band powers after the        *)
(* average over the channels and the 1/f correction, and their total.     *)
Pipeline(freq, phase) ==
  /\ call = NoCall
  /\ \E powers \in { SlopeCorrected(ChannelPowersOf(Processor256,
                                                     Tone(freq, phase))) } :
       call' = [ fn |-> "processBluetoothFFT", freq |-> freq,
                 phase |-> phase, powers |-> powers,
                 totalPower |-> TotalPower(powers) ]
  /\ UNCHANGED << now, op, detVars, hookVars, museVars, scratch, appVars >>

Pipelines == \E freq \in ToneFreqs, phase \in TonePhases : Pipeline(freq, phase)

NextScorer == Scores \/ Zones \/ BandPowers \/ Computes \/ Pipelines

SpecScorer == InitDetectorCfg /\ [][NextScorer]_vars

(* ===================== claims about the detector ====================== *)
(* Elapsed time, at the last tick, since the first tick of the current    *)
(* unbroken run of conditionsMet ticks.                                   *)
Elapsed == now - runStart

(* C1: with a fixed configuration whose sustainedMs is positive, a tick   *)
(* of a run of conditionsMet ticks returns isActive = false while the     *)
(* elapsed time since the first tick of the run is below sustainedMs, and *)
(* isActive = true from the first tick at which it is >= sustainedMs.     *)
C1_ActiveExactlyWhenSustained ==
  (op = "update" /\ obs.conditionsMet /\ config.sustainedMs > 0)
    => /\ runStart # Null
       /\ fs.isActive <=> (Elapsed >= config.sustainedMs)
       /\ obs.entered <=> (Elapsed >= config.sustainedMs /\ ~obs.wasActive)

(* C1 witness: the tick of a run, several ticks long, at which the        *)
(* elapsed time first reaches sustainedMs and the detector turns active.  *)
C1_Witness ==
  /\ op = "update" /\ obs.conditionsMet /\ obs.entered /\ fs.isActive
  /\ obs.wasSince # Null
  /\ Elapsed >= config.sustainedMs

(* C2: with sustainedMs positive, a tick on which conditionsMet is false  *)
(* clears the start timestamp and returns sustainedMs = 0 and isActive =  *)
(* false; once conditions resume the elapsed time is measured from the    *)
(* first resumed tick only, and isActive stays false until sustainedMs    *)
(* has elapsed from that tick.                                            *)
C2_BreakResetsTimer ==
  (op = "update" /\ config.sustainedMs > 0)
    => /\ ~obs.conditionsMet
            => /\ conditionMetSince = Null
               /\ fs.sustainedMs = 0
               /\ ~fs.isActive
       /\ obs.conditionsMet
            => /\ conditionMetSince = runStart
               /\ fs.sustainedMs = Elapsed
               /\ (Elapsed < config.sustainedMs => ~fs.isActive)

(* C2 witness: conditions have resumed after a break; the time of the     *)
(* broken run and of the new run together would reach sustainedMs, but    *)
(* the detector is not active.                                            *)
C2_Witness ==
  /\ op = "update" /\ obs.conditionsMet /\ ~fs.isActive
  /\ prevRun > 0
  /\ Elapsed > 0
  /\ prevRun + Elapsed >= config.sustainedMs

C4_ExitedOncePerDeparture ==
  op = "update"
    => /\ obs.exited <=> (~obs.conditionsMet /\ obs.wasActive)
       /\ (~obs.conditionsMet /\ obs.wasSince # Null /\ ~obs.wasActive)
            => ~obs.exited

(* C4 witness: a failing tick that found the detector active. *)
C4_Witness ==
  op = "update" /\ obs.exited /\ obs.wasActive /\ ~obs.conditionsMet

(* The gate of the claim C5, written from the inputs of the tick. *)
GateInvalid ==
  \/ TotalPower(obs.bands) < config.minSignalPower
  \/ fs.signalVariance.num < config.minVariance * fs.signalVariance.den
  \/ 2 * obs.quality < Scale
  \/ 100 * obs.bands.alpha < 2 * Scale

(* C5: with sustainedMs positive, a tick whose gate is invalid (total     *)
(* power below minSignalPower, variance below minVariance, electrode      *)
(* quality below 0.5, or alpha below 0.02) records no start timestamp and *)
(* returns sustainedMs = 0 and isActive = false.                          *)
C5_InvalidGateBlocksAccumulation ==
  (op = "update" /\ config.sustainedMs > 0 /\ GateInvalid)
    => /\ conditionMetSince = Null
       /\ fs.sustainedMs = 0
       /\ ~fs.isActive

(* C5 witness: the gate fails on alpha alone (0.01 < alpha < 0.02 with    *)
(* power, variance and contact fine, and ratio, variance ceiling and      *)
(* noise all satisfied) on a tick that found the detector active.         *)
C5_Witness ==
  /\ op = "update" /\ GateInvalid /\ obs.wasActive
  /\ TotalPower(obs.bands) >= config.minSignalPower
  /\ fs.signalVariance.num >= config.minVariance * fs.signalVariance.den
  /\ 2 * obs.quality >= Scale
  /\ fs.betaAlphaRatio.num * Scale
       < config.betaAlphaRatioThreshold * fs.betaAlphaRatio.den
  /\ fs.signalVariance.num < config.varianceThreshold * fs.signalVariance.den
  /\ fs.noiseLevel.num < config.noiseThreshold * fs.noiseLevel.den


(* The low values calculateCoherence returns for an unusable signal. *)
CoherenceSentinels == {Scale \div 10, (15 * Scale) \div 100, Scale \div 5}

(* C6: on every tick whose gate is invalid, the coherence computed for    *)
(* that tick is one of the sentinels 0.1, 0.15, 0.2, never a value of the *)
(* weighted sum.                                                          *)
C6_InvalidGateGivesSentinel ==
  (op = "update" /\ GateInvalid) => coherence \in CoherenceSentinels

(* ===================== claims about the pipeline ====================== *)
(* The state a handler and a detector have when constructed. *)
CleanSlate ==
  /\ eegBuffers = << << >>, << >>, << >>, << >> >>
  /\ _bands = ZeroBands
  /\ _bandsSmooth = ZeroBands
  /\ _history = [b \in BandNames |-> << >>]
  /\ conditionMetSince = Null
  /\ ~isActive
  /\ recentAlphaValues = << >>
  /\ recentBetaValues = << >>

(* C7: once a connection has been closed or lost (disconnect(), Bluetooth *)
(* link loss, OSC close), the state right after the next connection is    *)
(* established has the sample buffers, raw bands, smoothed bands, band    *)
(* history, the detector's start timestamp, active flag and variance      *)
(* window all at their initial values.                                    *)
C7_NoStateSurvivesReconnect ==
  (wasDisconnected /\ op \in {"open", "connectBluetooth"}) => CleanSlate

(* C8: whenever the exposed flow state is active while the handler is not *)
(* connected (the link has dropped, or no data has arrived for 2000 ms),  *)
(* the exposed flowState.isActive eventually becomes false.               *)
C8_DropoutEventuallyInactive ==
  (fs.isActive /\ ~connected) ~> ~fs.isActive

(* An FFT update that found at least one full channel and a total         *)
(* slope-corrected band power of zero.                                    *)
ZeroPowerUpdate(e) ==
  /\ e.kind = "eeg"
  /\ e.fft
  /\ e.validChannels > 0
  /\ e.totalPower = 0

(* C9: an FFT update whose total slope-corrected band power is zero       *)
(* leaves raw bands, smoothed bands and band history as they were, and    *)
(* computes no relative power.                                            *)
C9_ZeroPowerSkipsUpdate ==
  [][ (op' = "eeg" /\ ZeroPowerUpdate(ev'))
        => /\ UNCHANGED << _bands, _bandsSmooth, _history >>
           /\ ev'.relative = << >> ]_vars

(* Bands had been computed from an oscillating window, then a silent      *)
(* window arrived on channel 0 and the bands are still there.             *)
C9_Witness ==
  /\ op = "eeg"
  /\ ZeroPowerUpdate(ev)
  /\ _bandsSmooth.alpha > 0
  /\ Len(_history.alpha) = 1

(* args is empty or holds something that is not a finite number *)
Malformed(args) ==
  args = << >> \/ \E i \in 1..Len(args) : ~IsValidNumber(args[i])

(* args holds finite numbers only, and their value is outside [0, 1] *)
OutOfRange(args) ==
  /\ ~Malformed(args)
  /\ parseValue(args) < 0 \/ parseValue(args) > Scale

(* C10: an OSC band-power message whose value is malformed or outside     *)
(* [0, 1] leaves the raw band, the smoothed band and the band history     *)
(* exactly as they were.                                                  *)
C10_BadBandEventDiscarded ==
  [][ ( /\ op' = "osc"
        /\ ev'.kind = "osc"
        /\ BandOf(ev'.address) # "none"
        /\ Malformed(ev'.args) \/ OutOfRange(ev'.args) )
        => UNCHANGED << _bands, _bandsSmooth, _history >> ]_vars

(* ================== claims about the FFT band update ================== *)
(* The channels whose buffer holds at least N samples. *)
Included(buffers) == { ch \in 1..4 : Len(buffers[ch]) >= FFT_SIZE }

(* The slope-corrected band powers when the per-channel powers are summed *)
(* over the channels of chans only and divided by their number.           *)
PowersOver(buffers, chans) ==
  SlopeCorrected([ band \in BandNames |->
                     SumChannels(buffers, chans, band) \div Cardinality(chans) ])

(* The buffers with every full channel one sample short. *)
AllShort(buffers) ==
  [ ch \in 1..4 |-> IF Len(buffers[ch]) >= FFT_SIZE
                      THEN Tail(buffers[ch]) ELSE buffers[ch] ]

(* C11: an FFT band update counts and averages exactly the channels whose *)
(* buffer holds at least N samples, dividing the sum by their number; on  *)
(* buffers of which none is full, the update is skipped and raw bands,    *)
(* smoothed bands and history are unchanged.                              *)
C11_ShortChannelsExcluded ==
  /\ (op = "eeg" /\ ev.fft)
       => /\ ev.validChannels = Cardinality(Included(eegBuffers))
          /\ ev.relative # << >>
               => \E p \in {PowersOver(eegBuffers, Included(eegBuffers))} :
                    ev.relative =
                      [ band \in BandNames |->
                          (Scale * p[band]) \div TotalPower(p) ]
  /\ processBluetoothFFT(BandData, AllShort(eegBuffers)).data = BandData

(* C11 witness: an update that averaged over some channels while another  *)
(* channel held samples, fewer than N, of a signal that is not silent.    *)
C11_Witness ==
  /\ op = "eeg" /\ ev.fft /\ ev.relative # << >>
  /\ \E ch \in 1..4 :
       /\ ch \notin Included(eegBuffers)
       /\ eegBuffers[ch] # << >>
       /\ \E i \in 1..Len(eegBuffers[ch]) : eegBuffers[ch][i] # 0

(* ================= claims about the coherence scorer ================== *)
(* The guards of calculateCoherence, as the claim C12 states them. *)
PowerGuard(c) == 100 * TotalPower(c.bands) < 5 * Scale
ContactGuard(c) == 2 * c.quality < Scale
AlphaGuard(c) == 100 * c.bands.alpha < Scale
NoGuard(c) == ~PowerGuard(c) /\ ~ContactGuard(c) /\ ~AlphaGuard(c)

(* 0.35 alphaScore + 0.25 ratioScore + 0.2 thetaScore + 0.2 stability,    *)
(* clamped to [0, 1]                                                      *)
WeightedSum(c) ==
  Max(0, Min(Scale,
    (35 * AlphaScore(c.bands) + 25 * RatioScore(c.bands)
       + 20 * ThetaScore(c.bands) + 20 * StabilityScore(c.variance))
      \div 100))

(* C12: calculateCoherence returns 0.1 when totalPower < 0.05, whatever   *)
(* the quality and the bands; otherwise 0.15 when electrodeQuality < 0.5; *)
(* otherwise 0.2 when alpha < 0.01; and the weighted sum only when no     *)
(* guard matches.                                                         *)
C12_GuardsInOrder ==
  call.fn = "calculateCoherence"
    => /\ PowerGuard(call) => call.result = Scale \div 10
       /\ (~PowerGuard(call) /\ ContactGuard(call))
            => call.result = (15 * Scale) \div 100
       /\ (~PowerGuard(call) /\ ~ContactGuard(call) /\ AlphaGuard(call))
            => call.result = Scale \div 5
       /\ NoGuard(call) => call.result = WeightedSum(call)

(* C12 witness: all three guards match and the first one decided. *)
C12_Witness ==
  /\ call.fn = "calculateCoherence"
  /\ PowerGuard(call) /\ ContactGuard(call) /\ AlphaGuard(call)
  /\ call.result = Scale \div 10

(* C13: getCoherenceZone returns 'flow' exactly when coherence >= 0.7,    *)
(* 'stabilizing' exactly when 0.4 <= coherence < 0.7 and 'noise' exactly  *)
(* when coherence < 0.4.                                                  *)
C13_ZoneBoundsInclusive ==
  call.fn = "getCoherenceZone"
    => /\ call.result = "flow" <=> 10 * call.coherence >= 7 * Scale
       /\ call.result = "stabilizing"
            <=> (10 * call.coherence >= 4 * Scale
                 /\ 10 * call.coherence < 7 * Scale)
       /\ call.result = "noise" <=> 10 * call.coherence < 4 * Scale

(* C13 witness: the zone of a coherence of exactly 0.7, or exactly 0.4. *)
C13_Witness ==
  /\ call.fn = "getCoherenceZone"
  /\ \/ 10 * call.coherence = 7 * Scale /\ call.result = "flow"
     \/ 10 * call.coherence = 4 * Scale /\ call.result = "stabilizing"

(* C14: for bands in [0, 1], a variance >= 0 and a quality in [0, 1],     *)
(* calculateCoherence returns a value in [0, 1], and when the weighted    *)
(* sum is computed each of its four component scores is in [0, 1].        *)
C14_CoherenceInUnitRange ==
  call.fn = "calculateCoherence"
    => /\ call.result \in 0..Scale
       /\ NoGuard(call)
            => /\ AlphaScore(call.bands) \in 0..Scale
               /\ RatioScore(call.bands) \in 0..Scale
               /\ ThetaScore(call.bands) \in 0..Scale
               /\ StabilityScore(call.variance) \in 0..Scale

(* C14 witness: the weighted sum of a signal where beta is far above      *)
(* alpha and the variance is above 1/9, so that the ratio score and the   *)
(* stability score are both held at 0.                                    *)
C14_Witness ==
  /\ call.fn = "calculateCoherence" /\ NoGuard(call)
  /\ 2 * call.bands.beta > 3 * call.bands.alpha
  /\ 9 * call.variance.num > Scale2 * call.variance.den
  /\ call.result > 0

(* ===================== claims about the band power ==================== *)
(* The bins k >= 1 of the spectrum whose centre frequency                 *)
(* k * (sampleRate / N) lies in [lowFreq, highFreq).                      *)
BinsInRange(c) ==
  { k \in 1..(Len(c.magnitudes) - 1) :
      /\ c.lowFreq * c.size <= k * SAMPLE_RATE
      /\ k * SAMPLE_RATE < c.highFreq * c.size }

(* C15: getBandPower(lowFreq, highFreq) averages the squared magnitude    *)
(* over exactly the bins k >= 1 with lowFreq <= k * (sampleRate / N) <    *)
(* highFreq: the bin at highFreq is not included, and bin 0 never is.     *)
C15_BandUpperBoundExclusive ==
  call.fn = "getBandPower"
    => /\ call.bins = BinsInRange(call)
       /\ call.result = AveragePower(call.magnitudes, BinsInRange(call))

(* ===================== claims about the band state ==================== *)
(* C16: after any sequence of band updates, from FFT windows or from OSC  *)
(* messages, starting from the all-zero state, every raw band value and   *)
(* every smoothed band value lies in [0, 1].                              *)
C16_BandsInUnitRange ==
  \A band \in BandNames :
     /\ _bands[band] \in 0..Scale
     /\ _bandsSmooth[band] \in 0..Scale

(* C16 witness: a message carrying 1.5 for alpha has been handled, after  *)
(* other updates had already raised the smoothed value.                   *)
C16_Witness ==
  /\ op = "osc" /\ BandOf(ev.address) = "alpha"
  /\ ~Malformed(ev.args) /\ parseValue(ev.args) > Scale
  /\ _bands.alpha = Scale
  /\ _bandsSmooth.alpha > (Scale * (100 - smoothingFactor)) \div 100

(* The bands the last data event updated. *)
UpdatedBands(e) ==
  IF e.kind = "osc" /\ e.address # "" /\ BandOf(e.address) # "none"
    THEN {BandOf(e.address)}
  ELSE IF e.kind = "eeg" /\ e.fft /\ e.relative # << >> THEN BandNames
  ELSE {}

(* The last n entries of s, all of s if it has fewer. *)
LastN(s, n) == IF Len(s) > n THEN SubSeq(s, Len(s) - n + 1, Len(s)) ELSE s

(* C17: a band's history never holds more than historyLength entries; an  *)
(* update of the band appends the raw value it stored, after the entries  *)
(* already there and in their order, and when the history was full it     *)
(* drops exactly the oldest entry; nothing else changes a history.        *)
C17_HistoryBounded ==
  [][ \A band \in BandNames :
        /\ Len(_history'[band]) <= museHistoryLength
        /\ IF op' \in {"osc", "eeg"} /\ band \in UpdatedBands(ev')
             THEN _history'[band] =
                    LastN(Append(_history[band], _bands'[band]),
                          museHistoryLength)
             ELSE _history'[band] = _history[band] ]_vars

(* C17 witness: alpha was updated when its history was already full, and  *)
(* the entries kept are not all the same.                                 *)
C17_Witness ==
  /\ op = "osc" /\ ev.wasFull /\ BandOf(ev.address) = "alpha"
  /\ Len(_history.alpha) = museHistoryLength
  /\ _history.alpha[1] # _history.alpha[museHistoryLength]

(* ==================== claims about the sample buffers ================= *)
(* C18: each channel's buffer holds at most N samples; a reading for a    *)
(* channel 0..3 leaves in that channel's buffer the most recent N of the  *)
(* samples it held followed by the samples of the reading, in arrival     *)
(* order, and leaves the other buffers alone; a reading for a channel     *)
(* outside 0..3 changes no buffer.                                        *)
C18_BuffersHoldLatestSamples ==
  [][ op' = "eeg"
        => /\ \A ch \in 1..4 : Len(eegBuffers'[ch]) <= FFT_SIZE
           /\ IF ev'.channel \in 0..3
                THEN \A ch \in 1..4 :
                       eegBuffers'[ch] =
                         IF ch = ev'.channel + 1
                           THEN LastN(eegBuffers[ch] \o ev'.samples, FFT_SIZE)
                           ELSE eegBuffers[ch]
                ELSE eegBuffers' = eegBuffers ]_vars

(* C18 witness: a reading arrived for a channel whose buffer could not    *)
(* take all its samples, and samples of an earlier reading are still in   *)
(* the buffer.                                                            *)
C18_Witness ==
  /\ op = "eeg" /\ ev.channel \in 0..3
  /\ ev.held + Len(ev.samples) > FFT_SIZE
  /\ Len(ev.samples) < FFT_SIZE
  /\ Len(eegBuffers[ev.channel + 1]) = FFT_SIZE

(* =================== claims about the configuration =================== *)
(* The fields setThresholdSettings is not meant to touch. *)
OtherFields == DOMAIN config \ {"sustainedMs", "betaAlphaRatioThreshold"}

(* conditionsMet of a tick, judged by the configuration cfg. *)
MetUnder(cfg, o, f) ==
  /\ o.signalValid
  /\ f.betaAlphaRatio.num * Scale
       < cfg.betaAlphaRatioThreshold * f.betaAlphaRatio.den
  /\ f.signalVariance.num < cfg.varianceThreshold * f.signalVariance.den
  /\ f.noiseLevel.num < cfg.noiseThreshold * f.noiseLevel.den

(* C19: setThresholdSettings sets sustainedMs to timeThreshold and the    *)
(* ratio threshold to 1.0 - (coherenceThreshold - 0.7) * 2 and leaves     *)
(* every other configuration field as it was; an update, the one right    *)
(* after a replacement included, judges its conditions and the sustain    *)
(* duration by the configuration then in force.                           *)
C19_ThresholdsReplacedBetweenTicks ==
  [][ /\ \A settings \in ThresholdInputs :
           SetThresholdSettings(settings)
             => /\ config'.sustainedMs * TimeUnitMs = settings.timeThreshold
                /\ config'.betaAlphaRatioThreshold =
                     Scale - ((settings.coherenceThreshold * 10 - 7 * Scale)
                                * 2) \div 10
                /\ DOMAIN config' = DOMAIN config
                /\ \A k \in OtherFields : config'[k] = config[k]
      /\ op' = "update"
           => /\ obs'.conditionsMet <=> MetUnder(config, obs', fs')
              /\ fs'.isActive
                   <=> (obs'.conditionsMet
                        /\ (isActive \/ fs'.sustainedMs >= config.sustainedMs)) ]_vars

(* C19 witness: the thresholds have just been replaced in the middle of   *)
(* a run of conditionsMet ticks, by a time threshold the run has already  *)
(* reached and a ratio threshold the last tick would not have passed.     *)
C19_Witness ==
  /\ op = "setThresholdSettings"
  /\ conditionMetSince # Null /\ ~isActive
  /\ now - conditionMetSince >= config.sustainedMs
  /\ fs.betaAlphaRatio.num * Scale
       >= config.betaAlphaRatioThreshold * fs.betaAlphaRatio.den

(* C20: once the configuration has been replaced with a minimum alpha, a  *)
(* tick's gate is valid exactly when total power, variance and contact    *)
(* pass and alpha >= the configured minimum alpha.                        *)
C20_MinAlphaConfigurable ==
  (op = "update" /\ "minAlpha" \in DOMAIN config)
    => (obs.signalValid
          <=> /\ TotalPower(obs.bands) >= config.minSignalPower
              /\ fs.signalVariance.num
                   >= config.minVariance * fs.signalVariance.den
              /\ 2 * obs.quality >= Scale
              /\ obs.bands.alpha >= config.minAlpha)

(* ======================== claims about the FFT ======================== *)
(* C21: the spectrum compute returns is the one a processor as            *)
(* constructed returns for the same window, whatever was computed before; *)
(* two calls in a row on the same window return the same spectrum.        *)
C21_ComputeRepeatable ==
  call.fn = "compute"
    => /\ call.result = compute(call.samples)
       /\ call.earlier = << call.samples >>
            => call.result = call.earlierResult

(* C21 witness: a call that follows a call on a different window whose    *)
(* spectrum was different and not silent.                                 *)
C21_Witness ==
  /\ call.fn = "compute"
  /\ call.earlier # << >>
  /\ call.earlier # << call.samples >>
  /\ call.earlierResult # call.result
  /\ \E k \in 1..Len(call.earlierResult) : call.earlierResult[k] > 0

(* C22: a pure 10 Hz sine sampled at 256 Hz and run through the high-pass *)
(* filter, the Hann window, the FFT, the band powers and the 1/f          *)
(* correction has at least 90% of the total band power in alpha (so the   *)
(* normalised alpha is at least 0.9), and a pure 20 Hz sine at least 90%  *)
(* in beta.                                                               *)
C22_ToneDominatesItsBand ==
  call.fn = "processBluetoothFFT"
    => /\ call.totalPower > 0
       /\ call.freq = 10 => 10 * call.powers.alpha >= 9 * call.totalPower
       /\ call.freq = 20 => 10 * call.powers.beta >= 9 * call.totalPower

C22_Witness ==
  /\ call.fn = "processBluetoothFFT" /\ call.freq = 20 /\ call.phase = 32
  /\ call.powers.delta > 0
  /\ 10 * call.powers.beta >= 9 * call.totalPower

(* C23: whenever alpha <= 0.01, update reports betaAlphaRatio = 10        *)
(* without dividing by alpha, and the tick does not satisfy               *)
(* conditionsMet; whenever alpha > 0.01 the reported ratio is             *)
(* beta / alpha.                                                          *)
C23_NegligibleAlphaGivesSentinelRatio ==
  op = "update"
    => IF 100 * obs.bands.alpha <= Scale
         THEN /\ fs.betaAlphaRatio = [num |-> 10, den |-> 1]
              /\ ~obs.conditionsMet
         ELSE /\ fs.betaAlphaRatio.den # 0
              /\ fs.betaAlphaRatio.num * obs.bands.alpha
                   = obs.bands.beta * fs.betaAlphaRatio.den

(* alpha exactly 0.01 with beta / alpha = 0.5, under a ratio threshold    *)
(* above 10                                                               *)
C23_Witness ==
  /\ op = "update"
  /\ 100 * obs.bands.alpha = Scale /\ obs.bands.beta > 0
  /\ config.betaAlphaRatioThreshold > 10 * Scale
  /\ fs.betaAlphaRatio = [num |-> 10, den |-> 1]
  /\ ~obs.conditionsMet

(* C24: the sustainedMs returned by update is the current time minus the  *)
(* time of the first tick of the current unbroken run of conditionsMet    *)
(* ticks: 0 on the first tick of a run, never negative, non-decreasing    *)
(* over consecutive ticks of the run, and 0 on every tick on which        *)
(* conditionsMet is false.                                                *)
C24_SustainedMsMeasuresRun ==
  [][ op' = "update"
        => /\ obs'.conditionsMet
                => /\ fs'.sustainedMs = now' - runStart'
                   /\ fs'.sustainedMs >= 0
                   /\ runStart = Null => fs'.sustainedMs = 0
                   /\ runStart # Null => fs'.sustainedMs >= fs.sustainedMs
           /\ ~obs'.conditionsMet => fs'.sustainedMs = 0 ]_vars

(* the third tick or later of a run, after time has passed twice *)
C24_Witness ==
  /\ op = "update" /\ obs.conditionsMet /\ obs.wasSince # Null
  /\ fs.sustainedMs = now - runStart
  /\ fs.sustainedMs > MaxStep

(* The sum over the values v of (n * v - total)^2: n^2 times the sum of   *)
(* the squared deviations from the mean total / n.                        *)
RECURSIVE ScaledDeviations(_, _, _)
ScaledDeviations(values, n, total) ==
  IF values = << >> THEN 0
  ELSE (n * Head(values) - total) * (n * Head(values) - total)
       + ScaledDeviations(Tail(values), n, total)

(* The fraction v is the mean squared deviation from the mean of the      *)
(* values: v = ScaledDeviations / n^3.  ScaledDeviations is a multiple of *)
(* n, and the equation is written with both sides divided by n.           *)
IsPopulationVariance(v, values) ==
  LET n == Len(values) IN
  /\ n > 0 /\ v.den > 0
  /\ v.num * n * n
       = v.den * (ScaledDeviations(values, n, SumSeq(values)) \div n)

(* C25: the signalVariance returned by update is the population variance  *)
(* of one combined sample set made of the most recent alpha values and    *)
(* the most recent beta values (at most historyLength of each, the        *)
(* current tick included); the two windows always have the same length,   *)
(* which never exceeds historyLength.                                     *)
C25_VarianceIsPooled ==
  [][ op' = "update"
        => /\ recentAlphaValues'
                = LastN(Append(recentAlphaValues, obs'.bands.alpha),
                        historyLength)
           /\ recentBetaValues'
                = LastN(Append(recentBetaValues, obs'.bands.beta),
                        historyLength)
           /\ Len(recentAlphaValues') = Len(recentBetaValues')
           /\ Len(recentAlphaValues') <= historyLength
           /\ IsPopulationVariance(fs'.signalVariance,
                                   recentAlphaValues' \o recentBetaValues') ]_vars

(* full windows of differing values: the alpha values alone and the beta  *)
(* values alone have other variances than the pool                        *)
C25_Witness ==
  /\ op = "update"
  /\ Len(recentAlphaValues) = historyLength
  /\ Len(recentBetaValues) = historyLength
  /\ recentAlphaValues[1] # recentAlphaValues[historyLength]
  /\ fs.signalVariance.num > 0
  /\ ~IsPopulationVariance(fs.signalVariance, recentAlphaValues)
  /\ ~IsPopulationVariance(fs.signalVariance, recentBetaValues)

(* The number of the four codes of horseshoe that equal code. *)
CountOf(horseshoe, code) == Cardinality({ i \in 1..4 : horseshoe[i] = code })

(* (good + 0.5 * medium) / 4, in thousandths *)
ContactScalar(horseshoe) ==
  (Scale * (2 * CountOf(horseshoe, 1) + CountOf(horseshoe, 2))) \div 8

(* C26: for any four contact codes from {1,2,3,4}, the electrode quality  *)
(* scalar fed to the gate (update) and to the coherence scorer on an      *)
(* animation frame is (number of good codes + 0.5 * number of medium      *)
(* codes) / 4, which lies in [0,1]; poor and off contribute 0.            *)
C26_ContactScalar ==
  [][ (UpdateLoop /\ connected)
        => /\ obs'.quality = ContactScalar(_electrodeQuality)
           /\ obs'.quality >= 0 /\ obs'.quality <= Scale
           /\ obs'.signalValid => 2 * ContactScalar(_electrodeQuality) >= Scale
           /\ coherence' = calculateCoherence(obs'.bands, fs'.signalVariance,
                                              ContactScalar(_electrodeQuality))
    ]_vars

(* a frame on which one contact was good, one medium, one poor, one off *)
C26_Witness ==
  /\ op = "update"
  /\ { _electrodeQuality[i] : i \in 1..4 } = 1..4
  /\ obs.quality = (3 * Scale) \div 8
  /\ obs.bands.alpha > 0

(* ============ claims about a changing configuration and reset ======== *)
(* C27: for every configuration setConfig accepts (a sustainedMs of 0 or  *)
(* below included), update returns isActive = true only on a tick on      *)
(* which conditionsMet is true: a tick with failing conditions or an      *)
(* invalid gate never ends with the detector active.                      *)
C27_ActiveOnlyWhenConditionsMet ==
  op = "update" => (fs.isActive => obs.conditionsMet)

(* C28: across any interleaving of update and setConfig calls, whenever    *)
(* update returns isActive = true the sustainedMs it returns is at least  *)
(* the sustainedMs configured at that moment.                             *)
C28_ActiveImpliesSustained ==
  (op = "update" /\ fs.isActive) => fs.sustainedMs >= config.sustainedMs

(* C29: over any sequence of update, setConfig and reset calls, the       *)
(* entered and exited notifications alternate, starting with entered: an  *)
(* exited notification comes only after an entered one that no exited has *)
(* followed, and an entered notification never follows another with no    *)
(* exited between them (on a tick that fires both, exited comes first).   *)
C29_NotificationsAlternate ==
  [][ op' = "update"
        => /\ obs'.exited => obs.enteredLast
           /\ obs'.entered => (~obs.enteredLast \/ obs'.exited) ]_vars

(* ================== claims about the channel buffers ================== *)
(* C30: a band update from raw samples is computed only when a reading    *)
(* for channel 0 arrives and channel 0's buffer then holds FFT_SIZE       *)
(* samples; a reading for channel 1, 2 or 3 only fills its own buffer and *)
(* changes neither the raw bands, nor the smoothed bands, nor the         *)
(* history, even when all of channels 1 to 3 are full.                    *)
C30_OnlyChannelZeroTriggers ==
  [][ (delivered' # delivered /\ ev'.kind = "eeg")
        => /\ ev'.fft <=> (ev'.channel = 0 /\ Len(eegBuffers'[1]) >= FFT_SIZE)
           /\ << _bands', _bandsSmooth', _history' >>
                  # << _bands, _bandsSmooth, _history >>
                => (ev'.channel = 0 /\ Len(eegBuffers'[1]) >= FFT_SIZE)
           /\ ev'.channel \in 1..3
                => /\ UNCHANGED << _bands, _bandsSmooth, _history >>
                   /\ eegBuffers'[ev'.channel + 1]
                        = LastN(eegBuffers[ev'.channel + 1] \o ev'.samples,
                                FFT_SIZE)
                   /\ \A ch \in 1..4 :
                        ch # ev'.channel + 1 => eegBuffers'[ch] = eegBuffers[ch]
    ]_vars

(* channels 1, 2 and 3 are full, the last reading was for one of them,    *)
(* and there are no bands yet                                             *)
C30_Witness ==
  /\ ev.kind = "eeg" /\ ev.channel \in 1..3 /\ ~ev.fft
  /\ \A ch \in 2..4 : Len(eegBuffers[ch]) = FFT_SIZE
  /\ Len(eegBuffers[1]) < FFT_SIZE
  /\ _bands = ZeroBands /\ _bandsSmooth = ZeroBands
  /\ \A band \in BandNames : _history[band] = << >>

(* ================ claims about the OSC reconnect timer ================ *)
(* C31: after the user calls disconnect() on an OSC connection, no        *)
(* automatic reconnect is attempted: while disconnect() is the user's     *)
(* last connection call, the reconnect timer opens no socket, in whatever *)
(* order the socket's close event and the timer are delivered.            *)
C31_NoReconnectAfterDisconnect ==
  [][ (userDisconnected /\ op' = "reconnect")
        => (sockets' = sockets /\ osc' = osc) ]_vars

(* C32: at most one reconnect timer is pending at any time, and when it   *)
(* fires a reconnect is attempted (a socket is created) only if the       *)
(* handler is not connected at that moment.                               *)
C32_OneReconnectTimer ==
  [][ /\ timers' <= 1
      /\ (timers' = 1) <=> (reconnectInterval' # Null)
      /\ (op' = "reconnect" /\ timers' < timers /\ sockets' # sockets)
           => ~_connected ]_vars

(* a close event found a timer pending and set no second one *)
C32_Witness ==
  /\ op = "close" /\ timers = 1 /\ reconnectInterval # Null
  /\ reconnectInterval < now + (3000 \div TimeUnitMs)

(* ========================= useSession ================================= *)
(* Times are in units of TimeUnitMs, as everywhere; the 1000 ms between   *)
(* two coherence samples is one unit.                                     *)

\* ids generated by uuidv4() in one behaviour
MaxUuids == 3
\* updateFlowState calls in one behaviour
MaxReports == 4

(* uuidv4(): the k-th id generated, a positive number here; no two are   *)
(* equal                                                                  *)
uuidv4(k) == k

(* new Date(ms).toISOString() *)
toISOString(t) == << "iso", t * TimeUnitMs >>

(* storage.createUser(name), then the hook's createUser selects the user *)
CreateUser(name) ==
  /\ uuids < MaxUuids
  /\ Len(users) < 1
  /\ uuids' = uuids + 1
  /\ users' = Append(users, [id |-> uuidv4(uuids + 1), name |-> name])
  /\ currentUser' = uuidv4(uuids + 1)
  /\ op' = "createUser"
  /\ UNCHANGED << now, coreVars, audioVars, screen, isSessionActive, sessionStartTime,
                  sessionDuration, flowStateTime, longestStreak,
                  currentStreak, coherenceHistory, flowStateStartRef,
                  lastCoherenceTimeRef, lastSession, reports, reported, sessions,
                  imported >>

(* Mutant of startSession: flowStateStartRef keeps its value. *)
startSession_KeepRef ==
  /\ sessionStartTime' = now
  /\ sessionDuration' = 0
  /\ flowStateTime' = 0
  /\ longestStreak' = 0
  /\ currentStreak' = 0
  /\ coherenceHistory' = << >>
  /\ isSessionActive' = TRUE
  /\ lastCoherenceTimeRef' = now
  /\ screen' = "session"
  /\ reports' = << >>
  /\ UNCHANGED << currentUser, lastSession, reported, flowStateStartRef >>

(* startSession: what it does to the state of useSession *)
startSession ==
  /\ sessionStartTime' = now
  /\ sessionDuration' = 0
  /\ flowStateTime' = 0
  /\ longestStreak' = 0
  /\ currentStreak' = 0
  /\ coherenceHistory' = << >>
  /\ isSessionActive' = TRUE
  /\ flowStateStartRef' = Null
  /\ lastCoherenceTimeRef' = now
  /\ screen' = "session"
  /\ reports' = << >>
  /\ UNCHANGED << currentUser, lastSession, reported >>

(* startSession is called, from the setup screen *)
StartSession ==
  /\ screen = "setup"
  /\ startSession
  /\ op' = "startSession"
  /\ UNCHANGED << now, coreVars, audioVars, storeVars >>

(* Time passes by dt units of 1000 ms.  While a session runs, the         *)
(* interval of the duration effect fires every 1000 ms: its last callback *)
(* has run at the new time.                                               *)
SessionPass(dt) ==
  /\ now + dt <= MaxClock
  /\ now' = now + dt
  /\ sessionDuration' =
       IF isSessionActive /\ sessionStartTime # Null
         THEN now' - sessionStartTime ELSE sessionDuration
  /\ op' = "pass"
  /\ UNCHANGED << coreVars, audioVars, currentUser, screen, isSessionActive,
                  sessionStartTime, flowStateTime, longestStreak,
                  currentStreak, coherenceHistory, flowStateStartRef,
                  lastCoherenceTimeRef, lastSession, reports, reported,
                  storeVars >>

(* if (streak > longestStreak) setLongestStreak(streak) *)
NextLongestStreak(streak, longest) ==
  IF streak > longest THEN streak ELSE longest

(* updateFlowState(isActive, coherence) in a running session: what it     *)
(* does to the state of useSession.  The effect of App calls it after a   *)
(* render, so with the state of that render.                              *)
updateFlowState(active, c) ==
  /\ IF now - lastCoherenceTimeRef >= 1000 \div TimeUnitMs
       THEN /\ coherenceHistory' = Append(coherenceHistory, c)
            /\ lastCoherenceTimeRef' = now
       ELSE UNCHANGED << coherenceHistory, lastCoherenceTimeRef >>
  /\ IF active
       THEN /\ flowStateStartRef' =
                 IF flowStateStartRef = Null THEN now ELSE flowStateStartRef
            /\ currentStreak' = now - flowStateStartRef'
            /\ longestStreak' =
                 NextLongestStreak(now - flowStateStartRef', longestStreak)
            /\ UNCHANGED flowStateTime
       ELSE /\ flowStateTime' =
                 IF flowStateStartRef # Null
                   THEN flowStateTime + (now - flowStateStartRef)
                   ELSE flowStateTime
            /\ flowStateStartRef' = Null
            /\ currentStreak' = 0
            /\ UNCHANGED longestStreak
  /\ UNCHANGED << currentUser, screen, isSessionActive, sessionStartTime,
                  sessionDuration, lastSession >>

(* updateFlowState(isActive, coherence) is called in a running session;   *)
(* the call is added to the log of the session.                           *)
UpdateFlowState(active, c) ==
  /\ isSessionActive
  /\ reported < MaxReports
  /\ updateFlowState(active, c)
  /\ reports' = Append(reports, [t |-> now, isActive |-> active])
  /\ reported' = reported + 1
  /\ op' = "updateFlowState"
  /\ UNCHANGED << now, coreVars, audioVars, storeVars >>

(* updateFlowState outside a session: if (!isSessionActive) return *)
UpdateFlowStateIdle ==
  /\ ~isSessionActive
  /\ op' = "updateFlowStateIdle"
  /\ UNCHANGED << now, coreVars, appVars >>

(* coherenceHistory.reduce((a, b) => a + b, 0) / coherenceHistory.length *)
avgCoherenceOf(history) ==
  IF Len(history) > 0 THEN SumSeq(history) \div Len(history) ELSE 0

(* Whether endSession saves a session (it returns null otherwise). *)
Saves == isSessionActive /\ sessionStartTime # Null /\ currentUser # Null

(* endSession: what it does to the state of useSession and to the store *)
endSession ==
  IF ~Saves
    THEN /\ isSessionActive' = FALSE
         /\ UNCHANGED << currentUser, screen, sessionStartTime,
                         sessionDuration, flowStateTime, longestStreak,
                         currentStreak, coherenceHistory, flowStateStartRef,
                         lastCoherenceTimeRef, lastSession, reports, reported,
                         storeVars >>
    ELSE /\ uuids' = uuids + 1
         /\ lastSession' =
              [ id |-> uuidv4(uuids + 1),
                userId |-> currentUser,
                startTime |-> toISOString(sessionStartTime),
                endTime |-> toISOString(now),
                duration |-> now - sessionStartTime,
                flowStateTime |-> flowStateTime,
                longestStreak |-> longestStreak,
                avgCoherence |-> avgCoherenceOf(coherenceHistory),
                coherenceHistory |-> coherenceHistory ]
         /\ sessions' = Append(sessions, lastSession')
         /\ isSessionActive' = FALSE
         /\ screen' = "summary"
         /\ UNCHANGED << currentUser, sessionStartTime, sessionDuration,
                         flowStateTime, longestStreak, currentStreak,
                         coherenceHistory, flowStateStartRef,
                         lastCoherenceTimeRef, reports, reported, users,
                         imported >>

(* endSession is called *)
EndSession ==
  /\ Saves => uuids < MaxUuids
  /\ endSession
  /\ op' = IF Saves THEN "endSession" ELSE "endSessionNull"
  /\ UNCHANGED << now, coreVars, audioVars >>

(* handleNewSession: setScreen('setup') *)
NewSession ==
  /\ screen = "summary"
  /\ screen' = "setup"
  /\ op' = "newSession"
  /\ UNCHANGED << now, coreVars, audioVars, currentUser, isSessionActive,
                  sessionStartTime, sessionDuration, flowStateTime,
                  longestStreak, currentStreak, coherenceHistory,
                  flowStateStartRef, lastCoherenceTimeRef, lastSession,
                  reports, reported, storeVars >>

CoherenceReports == {800}

UpdateFlowStates ==
  \E active \in BOOLEAN, c \in CoherenceReports : UpdateFlowState(active, c)

NextSession ==
  \/ CreateUser("ann")
  \/ StartSession
  \/ UpdateFlowStates
  \/ UpdateFlowStateIdle
  \/ EndSession
  \/ NewSession
  \/ \E dt \in 1 .. MaxStep : SessionPass(dt)

SpecSession == InitDetectorCfg /\ [][NextSession]_vars

(* The time the flow state was active according to the reports rs from    *)
(* index i on, when the session ends at time end: every run of active     *)
(* reports lasts from its first report (since) to the report that ends it *)
(* or, if none does, to the end of the session.                           *)
RECURSIVE ActiveTimeFrom(_, _, _, _)
ActiveTimeFrom(rs, i, since, end) ==
  IF i > Len(rs)
    THEN IF since = Null THEN 0 ELSE end - since
    ELSE IF rs[i].isActive
      THEN ActiveTimeFrom(rs, i + 1,
                          IF since = Null THEN rs[i].t ELSE since, end)
      ELSE (IF since = Null THEN 0 ELSE rs[i].t - since)
             + ActiveTimeFrom(rs, i + 1, Null, end)

ActiveTime(rs, end) == ActiveTimeFrom(rs, 1, Null, end)

(* The longest streak any report of rs saw: the time from the first       *)
(* report of its run of active reports to the report itself.              *)
RECURSIVE LongestFrom(_, _, _)
LongestFrom(rs, i, since) ==
  IF i > Len(rs) THEN 0
  ELSE IF rs[i].isActive
    THEN LET start == IF since = Null THEN rs[i].t ELSE since
         IN  Max(rs[i].t - start, LongestFrom(rs, i + 1, start))
    ELSE LongestFrom(rs, i + 1, Null)

LongestReported(rs) == LongestFrom(rs, 1, Null)

(* C33: the flowStateTime endSession saves is the total time the flow     *)
(* state was active in the session as reported through updateFlowState,   *)
(* the interval still in progress at the end included.                    *)
C33_FlowStateTimeIsTotalActive ==
  [][ op' = "endSession"
        => lastSession'.flowStateTime = ActiveTime(reports, now) ]_vars

(* C34: in an active session longestStreak never decreases and is at      *)
(* least the current streak after each updateFlowState; startSession      *)
(* zeroes duration, flowStateTime, longestStreak, currentStreak and the   *)
(* coherence history, and what a session saves as its longest streak is   *)
(* the longest streak of its own reports.                                 *)
C34_StreaksAndReset ==
  [][ /\ (isSessionActive /\ isSessionActive') => longestStreak' >= longestStreak
      /\ op' = "updateFlowState" => longestStreak' >= currentStreak'
      /\ op' = "startSession"
           => /\ sessionDuration' = 0 /\ flowStateTime' = 0
              /\ longestStreak' = 0 /\ currentStreak' = 0
              /\ coherenceHistory' = << >>
      /\ op' = "endSession"
           => lastSession'.longestStreak = LongestReported(reports) ]_vars

(* a second session was saved after a first one that had a streak, and    *)
(* its own longest streak is shorter                                      *)
C34_Witness ==
  /\ op = "endSession" /\ Len(sessions) = 2
  /\ sessions[1].longestStreak > sessions[2].longestStreak
  /\ sessions[2].longestStreak > 0
  /\ sessions[1].flowStateTime < sessions[1].duration

(* ===================== StorageManager.importData ====================== *)
\* entries of the users array, and of the sessions array, of an import file
MaxFile == 2

(* The values an import file holds: null, and an object with an id. *)
JNull == [type |-> "null"]
JObject(id) == [type |-> "object", id |-> id]

(* ids found in import files: 1 is also the first id uuidv4 generates *)
ImportIds == {1, 7}
FileItems == {JNull} \cup {JObject(id) : id \in ImportIds}
FileArrays == UNION {[1 .. n -> FileItems] : n \in 0 .. MaxFile}

(* The text of an import file: not JSON at all, or the JSON of an object  *)
(* whose users and sessions properties are arrays or are missing.         *)
FileProperties ==
  {[present |-> FALSE]}
    \cup {[present |-> TRUE, items |-> a] : a \in FileArrays}

ImportFiles ==
  {[wellFormed |-> FALSE]}
    \cup {[wellFormed |-> TRUE, users |-> u, sessions |-> ss] :
            u \in FileProperties, ss \in FileProperties}

IdsOf(list) == {list[i].id : i \in 1 .. Len(list)}

(* !existingIds.has(user.id), existingIds being the ids stored before the *)
(* loop; list is the array the loop pushes to                             *)
ShouldImport(item, existingIds, list) == item.id \notin existingIds

(* for (const user of data.users): push what is not in existingIds and    *)
(* count it.  Reading the id of null throws.                              *)
RECURSIVE ImportLoop(_, _, _, _)
ImportLoop(existingIds, items, list, count) ==
  IF items = << >>
    THEN [threw |-> FALSE, list |-> list, count |-> count]
    ELSE IF Head(items).type = "null"
      THEN [threw |-> TRUE, list |-> list, count |-> count]
      ELSE IF ShouldImport(Head(items), existingIds, list)
        THEN ImportLoop(existingIds, Tail(items),
                        Append(list, Head(items)), count + 1)
        ELSE ImportLoop(existingIds, Tail(items), list, count)

(* if (data.users && Array.isArray(data.users)) { ... }: one of the two   *)
(* import blocks of importData, on the stored array                       *)
ImportBlock(property, stored) ==
  IF property.present
    THEN ImportLoop(IdsOf(stored), property.items, stored, 0)
    ELSE [threw |-> FALSE, list |-> stored, count |-> 0]

Threw == [outcome |-> "threw", message |-> "Invalid import data format"]

(* importData(jsonString) *)
ImportData(file) ==
  /\ op' = "importData"
  /\ IF ~file.wellFormed
       THEN /\ imported' = Threw
            /\ UNCHANGED << users, sessions >>
       ELSE LET u  == ImportBlock(file.users, users)
                ss == ImportBlock(file.sessions, sessions)
            IN  IF u.threw
                  THEN /\ imported' = Threw
                       /\ UNCHANGED << users, sessions >>
                  ELSE /\ users' = u.list
                       /\ IF ss.threw
                            THEN /\ imported' = Threw
                                 /\ UNCHANGED sessions
                            ELSE /\ sessions' = ss.list
                                 /\ imported' =
                                      [outcome |-> "returned",
                                       users |-> u.count,
                                       sessions |-> ss.count]
  /\ UNCHANGED << now, coreVars, audioVars, sessVars, uuids >>

ImportDatas == \E file \in ImportFiles : ImportData(file)

(* filter((s) => s.id !== sessionId) *)
WithoutId(list, id) == SelectSeq(list, LAMBDA s : s.id # id)

(* deleteSession(sessionId) *)
DeleteSession(sessionId) ==
  /\ sessions' = WithoutId(sessions, sessionId)
  /\ op' = "deleteSession"
  /\ UNCHANGED << now, coreVars, audioVars, sessVars, users, uuids, imported >>

DeleteSessions == \E id \in ImportIds : DeleteSession(id)

NextStorage == CreateUser("ann") \/ ImportDatas \/ DeleteSessions

SpecStorage == InitDetectorCfg /\ [][NextStorage]_vars

Distinct(list) ==
  \A i, j \in 1 .. Len(list) : list[i].id = list[j].id => i = j

(* C38: an import on stored users and sessions with pairwise distinct ids *)
(* leaves them pairwise distinct, whatever the file, and the counts it    *)
(* returns are the numbers of users and sessions it added.                *)
C38_ImportKeepsIdsDistinct ==
  [][ (op' = "importData" /\ Distinct(users) /\ Distinct(sessions))
        => /\ Distinct(users') /\ Distinct(sessions')
           /\ imported'.outcome = "returned"
                => /\ imported'.users = Len(users') - Len(users)
                   /\ imported'.sessions = Len(sessions') - Len(sessions) ]_vars

(* C39: an importData that throws 'Invalid import data format' leaves the *)
(* stored users and sessions as they were.                                *)
C39_FailedImportWritesNothing ==
  [][ (op' = "importData" /\ imported' = Threw)
        => (users' = users /\ sessions' = sessions) ]_vars

(* ============================ AudioEngine ============================= *)
(* The engine is the record audioEngine; each method is an operator from  *)
(* the engine before the call to the engine after it.  A timeout set by   *)
(* setTimeout is kept in the engine record until the runtime runs it;     *)
(* timeouts of one delay run in the order they were set.                  *)

\* oscillators the engine creates in one behaviour
MaxOscillators == 6
\* entrainment timeouts pending at one time
MaxTimers == 2

(* ctx.createOscillator() followed by its start(now): the engine with the *)
(* new oscillators, one per kind, running.                                *)
RECURSIVE createOscillators(_, _)
createOscillators(E, kinds) ==
  IF kinds = << >> THEN E
  ELSE createOscillators(
         [E EXCEPT !.oscillators =
                     Append(@, [kind |-> Head(kinds), running |-> TRUE])],
         Tail(kinds))

(* stop() on every oscillator of ids *)
stopOscillators(E, ids) ==
  [E EXCEPT !.oscillators =
     [i \in 1 .. Len(@) |->
        IF i \in ids THEN [@[i] EXCEPT !.running = FALSE] ELSE @[i]]]

(* init *)
init(E) == [E EXCEPT !.ctx = TRUE]

(* The oscillators the entrainment fields refer to. *)
EntrainmentRefs(E) ==
  ({E.binauralLeft, E.binauralRight}
     \cup UNION {{E.isochronicVoices[i].osc, E.isochronicVoices[i].lfo} :
                   i \in 1 .. Len(E.isochronicVoices)}) \ {0}

(* stopEntrainment: the references are captured for the timeout and       *)
(* cleared at once.  existing records how many oscillators had been       *)
(* created when the timeout was set, for the claims.                      *)
stopEntrainment(E) ==
  IF ~E.ctx THEN E
  ELSE [E EXCEPT !.entrainmentTimeouts =
                    Append(@, [toStop |-> EntrainmentRefs(E),
                               existing |-> Len(E.oscillators)]),
                 !.binauralLeft = 0,
                 !.binauralRight = 0,
                 !.isochronicVoices = << >>,
                 !.isEntrainmentPlaying = FALSE]

(* Mutant of OscillatorsToStop: the timeout reads the fields when it runs. *)
OscillatorsToStop_Current(timeout, E) == EntrainmentRefs(E)

(* binauralLeftToStop, binauralRightToStop, isochronicVoicesToStop: what  *)
(* the callback of a timeout stops when it runs on engine E               *)
OscillatorsToStop(timeout, E) == timeout.toStop

(* The callback stopEntrainment handed to setTimeout(..., 600) runs. *)
entrainmentTimeout(E) ==
  LET timeout == Head(E.entrainmentTimeouts)
      ids == OscillatorsToStop(timeout, E)
  IN  [stopOscillators(E, ids) EXCEPT
         !.entrainmentTimeouts = Tail(@),
         !.stopped = ids]

(* startBinaural *)
startBinaural(E) ==
  IF ~E.ctx THEN E
  ELSE LET n == Len(E.oscillators)
       IN  [createOscillators(E, << "binauralLeft", "binauralRight" >>)
              EXCEPT !.binauralLeft = n + 1, !.binauralRight = n + 2]

(* stopIsochronicVoices: the voices stop 250 ms of audio time later,      *)
(* which no call of the program can come before                           *)
stopIsochronicVoices(E) ==
  IF ~E.ctx \/ Len(E.isochronicVoices) = 0 THEN E
  ELSE [stopOscillators(E, EntrainmentRefs(
                             [E EXCEPT !.binauralLeft = 0,
                                       !.binauralRight = 0]))
          EXCEPT !.isochronicVoices = << >>]

(* startIsochronic: one voice (an oscillator and its LFO) per tone *)
startIsochronic(E) ==
  IF ~E.ctx THEN E
  ELSE LET E1 == stopIsochronicVoices(E)
           n == Len(E1.oscillators)
           tones == Min(E1.isochronicTones, 4)
       IN  IF tones = 0 THEN E1
           ELSE [createOscillators(
                   E1, [i \in 1 .. 2 * tones |->
                          IF i % 2 = 1 THEN "isochronicOsc"
                                       ELSE "isochronicLfo"])
                   EXCEPT !.isochronicVoices =
                     [i \in 1 .. tones |->
                        [osc |-> n + 2 * i - 1, lfo |-> n + 2 * i]]]

(* startEntrainment(type); an engine without context is initialised first *)
startEntrainment(E, type) ==
  LET E1 == IF ~E.ctx THEN init(E) ELSE E
      E2 == [E1 EXCEPT !.entrainmentType = type]
      E3 == stopEntrainment(E2)
  IN  IF type = "none" THEN E3
      ELSE [(IF type = "binaural" THEN startBinaural(E3)
                                  ELSE startIsochronic(E3))
              EXCEPT !.isEntrainmentPlaying = TRUE]

(* setIsochronicTones(tones), tones having n enabled entries *)
setIsochronicTones(E, n) ==
  LET E1 == [E EXCEPT !.isochronicTones = n]
  IN  IF E1.isEntrainmentPlaying /\ E1.entrainmentType = "isochronic"
        THEN startIsochronic(E1) ELSE E1

(* startReward: the sub-bass oscillator, the synth oscillator and the     *)
(* local synthOsc2, which no field refers to                              *)
startReward(E) ==
  LET E1 == IF ~E.ctx THEN init(E) ELSE E
      n == Len(E1.oscillators)
  IN  IF E1.isRewardPlaying THEN E1
      ELSE [createOscillators(E1, << "rewardSub", "rewardSynth", "synthOsc2" >>)
              EXCEPT !.rewardSubOsc = n + 1,
                     !.rewardSynthOsc = n + 2,
                     !.isRewardPlaying = TRUE]

(* stopReward *)
stopReward(E) ==
  IF ~E.ctx \/ ~E.isRewardPlaying THEN E
  ELSE [E EXCEPT !.rewardTimeouts = @ + 1, !.isRewardPlaying = FALSE]

(* The callback stopReward handed to setTimeout(..., 1600) runs: it stops *)
(* and clears what the fields refer to at that moment.                    *)
rewardTimeout(E) ==
  LET ids == {E.rewardSubOsc, E.rewardSynthOsc} \ {0}
  IN  [stopOscillators(E, ids) EXCEPT
         !.rewardTimeouts = @ - 1,
         !.rewardSubOsc = 0,
         !.rewardSynthOsc = 0,
         !.stopped = ids]

(* What a call of startEntrainment(type) creates at most. *)
Needs(E, type) ==
  IF type = "binaural" THEN 2
  ELSE IF type = "isochronic" THEN 2 * Min(E.isochronicTones, 4) ELSE 0

EngineUnchanged ==
  UNCHANGED << now, coreVars, sessVars, storeVars, isRewardPlaying,
               isInitialized, entrainmentEnabled, entrainmentType,
               effectPending >>

EngineInit ==
  /\ ~audioEngine.ctx
  /\ audioEngine' = init(audioEngine)
  /\ op' = "init"
  /\ EngineUnchanged

StartEntrainment(type) ==
  /\ Len(audioEngine.oscillators) + Needs(audioEngine, type) <= MaxOscillators
  /\ Len(audioEngine.entrainmentTimeouts) < MaxTimers
  /\ audioEngine' = startEntrainment(audioEngine, type)
  /\ op' = "startEntrainment"
  /\ EngineUnchanged

StopEntrainment ==
  /\ Len(audioEngine.entrainmentTimeouts) < MaxTimers
  /\ audioEngine' = stopEntrainment(audioEngine)
  /\ op' = "stopEntrainment"
  /\ EngineUnchanged

SetIsochronicTones(n) ==
  /\ Len(audioEngine.oscillators) + 2 * n <= MaxOscillators
  /\ audioEngine' = setIsochronicTones(audioEngine, n)
  /\ op' = "setIsochronicTones"
  /\ EngineUnchanged

EntrainmentTimeout ==
  /\ audioEngine.entrainmentTimeouts # << >>
  /\ audioEngine' = entrainmentTimeout(audioEngine)
  /\ op' = "entrainmentTimeout"
  /\ EngineUnchanged

StartReward ==
  /\ Len(audioEngine.oscillators) + 3 <= MaxOscillators
  /\ audioEngine' = startReward(audioEngine)
  /\ op' = "startReward"
  /\ EngineUnchanged

StopReward ==
  /\ audioEngine' = stopReward(audioEngine)
  /\ op' = "stopReward"
  /\ EngineUnchanged

RewardTimeout ==
  /\ audioEngine.rewardTimeouts > 0
  /\ audioEngine' = rewardTimeout(audioEngine)
  /\ op' = "rewardTimeout"
  /\ EngineUnchanged

EntrainmentTypes == {"none", "binaural", "isochronic"}

NextAudio ==
  \/ EngineInit
  \/ \E type \in EntrainmentTypes : StartEntrainment(type)
  \/ StopEntrainment
  \/ \E n \in 0 .. 1 : SetIsochronicTones(n)
  \/ EntrainmentTimeout
  \/ StartReward
  \/ StopReward
  \/ RewardTimeout

SpecAudio == InitDetectorCfg /\ [][NextAudio]_vars

(* C36: the delayed stop scheduled by stopEntrainment stops only          *)
(* oscillators that existed when stopEntrainment was called: none that a  *)
(* startEntrainment created before the timeout ran.                       *)
C36_TimeoutStopsOnlyCaptured ==
  [][ op' = "entrainmentTimeout"
        => \A id \in 1 .. Len(audioEngine.oscillators) :
             (id \in audioEngine'.stopped
                \/ (audioEngine.oscillators[id].running
                      /\ ~audioEngine'.oscillators[id].running))
               => id <= Head(audioEngine.entrainmentTimeouts).existing ]_vars

(* a timeout has just stopped the earlier oscillators while those of a    *)
(* later startEntrainment are referenced and running                      *)
C36_Witness ==
  /\ op = "entrainmentTimeout"
  /\ audioEngine.stopped # {}
  /\ EntrainmentRefs(audioEngine) # {}
  /\ \A id \in EntrainmentRefs(audioEngine) :
       audioEngine.oscillators[id].running
  /\ \A id \in audioEngine.stopped : ~audioEngine.oscillators[id].running

(* The last oscillator of a kind the engine created (0 if none). *)
LastOf(E, kind) ==
  LET ids == {i \in 1 .. Len(E.oscillators) : E.oscillators[i].kind = kind}
  IN  IF ids = {} THEN 0 ELSE CHOOSE i \in ids : \A j \in ids : j <= i

(* C37: whenever rewardPlaying is true, the oscillators the most recent   *)
(* startReward created are running and are the ones the fields refer to.  *)
C37_RewardOscillatorsRunning ==
  audioEngine.isRewardPlaying
    => /\ audioEngine.rewardSubOsc = LastOf(audioEngine, "rewardSub")
       /\ audioEngine.rewardSynthOsc = LastOf(audioEngine, "rewardSynth")
       /\ audioEngine.oscillators[LastOf(audioEngine, "rewardSub")].running
       /\ audioEngine.oscillators[LastOf(audioEngine, "rewardSynth")].running

(* ================== useAudio and the reward effect of App ============= *)
(* An async handler whose awaits resolve without waiting for an event     *)
(* (audioEngine.init() on a running context, audioEngine.startReward())   *)
(* runs to its end before any other handler, timeout or effect.           *)

(* useAudio.init: audioEngine.init(), then setIsInitialized(true) *)
hookInit(E) == IF isInitialized THEN E ELSE init(E)

(* useAudio.setEntrainmentEnabled(enabled), as a step of the engine *)
setEntrainmentEnabled(E, enabled) ==
  IF enabled /\ entrainmentType # "none"
    THEN startEntrainment(hookInit(E), entrainmentType)
    ELSE stopEntrainment(hookInit(E))

(* Mutant of ShouldStartReward: the effect never starts the reward. *)
ShouldStartReward_Never(active, playing) == FALSE

(* muse.flowState.isActive && !audio.isRewardPlaying *)
ShouldStartReward(active, playing) == active /\ ~playing

(* !muse.flowState.isActive && audio.isRewardPlaying *)
ShouldStopReward(active, playing) == ~active /\ playing

(* The flow decision of the detector changes (setFlowState in useMuse).   *)
FlowDecision(active) ==
  /\ active # fs.isActive
  /\ active => Len(audioEngine.oscillators) + 3 <= MaxOscillators
  /\ fs' = [fs EXCEPT !.isActive = active]
  /\ effectPending' = TRUE
  /\ op' = "flowDecision"
  /\ UNCHANGED << now, detVars, coherence, obs, runStart, prevRun, museVars,
                  call, scratch, sessVars, storeVars, audioEngine,
                  isRewardPlaying, isInitialized, entrainmentEnabled,
                  entrainmentType >>

(* useAudio.setEntrainmentType(type), from the setup screen *)
SetEntrainmentType(type) ==
  /\ screen = "setup"
  /\ type # entrainmentType
  /\ Len(audioEngine.oscillators) + Needs(audioEngine, type) + 3
       <= MaxOscillators
  /\ Len(audioEngine.entrainmentTimeouts) < MaxTimers
  /\ entrainmentType' = type
  /\ audioEngine' =
       IF isInitialized /\ entrainmentEnabled
         THEN IF type = "none" THEN stopEntrainment(audioEngine)
                               ELSE startEntrainment(audioEngine, type)
         ELSE audioEngine
  /\ op' = "setEntrainmentType"
  /\ UNCHANGED << now, coreVars, sessVars, storeVars, isRewardPlaying,
                  isInitialized, entrainmentEnabled, effectPending >>

(* handleEntrainmentToggle: setEntrainmentEnabled(!entrainmentEnabled) *)
HandleEntrainmentToggle ==
  /\ Len(audioEngine.oscillators) + Needs(audioEngine, entrainmentType) + 3
       <= MaxOscillators
  /\ Len(audioEngine.entrainmentTimeouts) < MaxTimers
  /\ entrainmentEnabled' = ~entrainmentEnabled
  /\ audioEngine' = setEntrainmentEnabled(audioEngine, ~entrainmentEnabled)
  /\ isInitialized' = TRUE
  /\ op' = "handleEntrainmentToggle"
  /\ UNCHANGED << now, coreVars, sessVars, storeVars, isRewardPlaying,
                  entrainmentType, effectPending >>

(* handleStartSession: audio.init(), setEntrainmentEnabled(true) if       *)
(* entrainment is enabled, startSession()                                 *)
HandleStartSession ==
  /\ screen = "setup"
  /\ Len(audioEngine.oscillators) + Needs(audioEngine, entrainmentType) + 3
       <= MaxOscillators
  /\ Len(audioEngine.entrainmentTimeouts) < MaxTimers
  /\ audioEngine' =
       IF entrainmentEnabled
         THEN setEntrainmentEnabled(hookInit(audioEngine), TRUE)
         ELSE hookInit(audioEngine)
  /\ isInitialized' = TRUE
  /\ startSession
  /\ effectPending' = TRUE
  /\ op' = "handleStartSession"
  /\ UNCHANGED << now, coreVars, storeVars, isRewardPlaying,
                  entrainmentEnabled, entrainmentType >>

(* handleEndSession: audio.stopReward(), audio.setEntrainmentEnabled(     *)
(* false), session.endSession()                                           *)
HandleEndSession ==
  /\ screen = "session"
  /\ Saves => uuids < MaxUuids
  /\ Len(audioEngine.entrainmentTimeouts) < MaxTimers
  /\ audioEngine' = setEntrainmentEnabled(stopReward(audioEngine), FALSE)
  /\ isRewardPlaying' = FALSE
  /\ entrainmentEnabled' = FALSE
  /\ isInitialized' = TRUE
  /\ endSession
  /\ effectPending' = TRUE
  /\ op' = "handleEndSession"
  /\ UNCHANGED << now, coreVars, entrainmentType >>

(* The effect of App on [flowState.isActive, coherence, isSessionActive,  *)
(* isRewardPlaying] runs after a render in which one of them changed.     *)
(* The log of reports is that of SpecSession and is not kept here.        *)
RewardEffect ==
  /\ effectPending
  /\ IF isSessionActive
       THEN /\ updateFlowState(fs.isActive, coherence)
            /\ UNCHANGED << reports, reported >>
            /\ IF ShouldStartReward(fs.isActive, isRewardPlaying)
                 THEN /\ audioEngine' = startReward(hookInit(audioEngine))
                      /\ isRewardPlaying' = TRUE
                      /\ isInitialized' = TRUE
                 ELSE IF ShouldStopReward(fs.isActive, isRewardPlaying)
                   THEN /\ audioEngine' = stopReward(audioEngine)
                        /\ isRewardPlaying' = FALSE
                        /\ UNCHANGED isInitialized
                   ELSE UNCHANGED << audioEngine, isRewardPlaying,
                                     isInitialized >>
       ELSE UNCHANGED << sessVars, audioEngine, isRewardPlaying,
                         isInitialized >>
  /\ effectPending' = (isRewardPlaying' # isRewardPlaying)
  /\ op' = "rewardEffect"
  /\ UNCHANGED << now, coreVars, storeVars, entrainmentEnabled,
                  entrainmentType >>

NextApp ==
  \/ CreateUser("ann")
  \/ \E active \in BOOLEAN : FlowDecision(active)
  \/ \E type \in EntrainmentTypes : SetEntrainmentType(type)
  \/ HandleEntrainmentToggle
  \/ HandleStartSession
  \/ HandleEndSession
  \/ NewSession
  \/ RewardEffect
  \/ EntrainmentTimeout
  \/ RewardTimeout

(* React runs an effect after every commit that changed one of its        *)
(* dependencies: a pending effect is not postponed for ever.              *)
SpecApp == InitDetectorCfg /\ [][NextApp]_vars /\ WF_vars(RewardEffect)

RewardOn == isRewardPlaying /\ audioEngine.isRewardPlaying
RewardOff == ~isRewardPlaying /\ ~audioEngine.isRewardPlaying

=============================================================================
